---- MODULE Spec2Model ----
(***************************************************************************)
(* The lobby of muuzika-server (src/src/lobby.rs): room creation, joining, *)
(* WebSocket connection ownership, fan-out and the delayed player and room *)
(* cleanup tasks, as a state machine over the shared State                 *)
(* (src/src/state.rs): the room registry, the pool of available room codes *)
(* and the Room objects behind their RwLocks.                              *)
(*                                                                         *)
(* Every step is one critical section of the code: the statements a task   *)
(* runs between acquiring and releasing a lock.  A task's position between *)
(* two critical sections is kept in the bag `tasks`.                       *)
(***************************************************************************)
EXTENDS Integers, Sequences, FiniteSets, Bags, TLC

\* ------------------------------------------------------------------ bounds
\* Size of the room-code universe (the code generates 10^ROOM_CODE_LENGTH).
NumCodes == 2
\* create_room requests the clients issue.
MaxCreates == 1
\* join_room requests the clients issue.
MaxJoins == 1
\* WebSocket upgrades the clients open.
MaxConns == 2
\* Millisecond ticks of the wall clock read by Player::new.
MaxTicks == 1
\* Add commands clients send over their connections at most.
MaxAdds == 2
\* Frames that are not commands clients send over their connections at most.
MaxFrames == 2
\* Longest ROOM_CODE_LENGTH whose pool is enumerated.
MaxWidth == 1
\* Swaps the shuffle of the pool makes at most.
MaxSwaps == 2

Users == {"alice", "bob"}
\* The order in which iterating a Room's players visits them.
PlayersOrder == <<"alice", "bob">>
Codes == 0 .. (NumCodes - 1)

\* ------------------------------------------------------------------- state
VARIABLES
    available_codes,  \* State.available_codes: Vec<RoomCode>
    rooms,            \* State.rooms: HashMap<RoomCode, WrappedRoom> (code -> room object)
    room,             \* the Room objects behind the Arcs, by allocation number
    tasks,            \* bag of tasks suspended between two critical sections
    outbox,           \* per WsConnection: every frame sent on its tx, in order
    tokens,           \* the tokens handed out in HTTP replies
    now,              \* wall clock in milliseconds
    calls,            \* requests issued so far, per kind
    limit,            \* requests the environment issues at most, per kind
    reply,            \* what the step just taken returned to its caller
    destroyed,        \* per Room object: times do_room_cleanup removed and pushed it
    last_ok,          \* per seat: the connection of the latest successful connect_player
    superseded,       \* connections replaced by a later connect_player
    pd_run,           \* per seat: PlayerDisconnected fan-outs since its ws was last Some
    room_cancels,     \* per Room object: armed room timers join_room has cancelled
    rx_closed,        \* connections whose queue no longer has a receiver
    sync,             \* the RoomSyncDto the step just taken returned, if any
    received,         \* the frame the read loop handed to handle_message in this step
    eval              \* a function applied on its own: its arguments and its result

vars == <<available_codes, rooms, room, tasks, outbox, tokens, now, calls, limit,
          reply, destroyed, last_ok, superseded, pd_run, room_cancels, rx_closed, sync,
          received, eval>>

\* Option<WsConnection>: a connection is its id (WsConnection::eq compares ids).
NoConn == 0

\* Option<oneshot::Sender<()>> in Player.cancel_cleanup / Room.cancel_cleanup:
\*   "None"  - no sender stored
\*   "Armed" - a sender whose receiver is still awaited by a cleanup task
\*   "Stale" - a sender whose receiver is gone (the timeout already elapsed)
NoCancel == "None"

\* ------------------------------------------------------------------ frames
Msg(type, arg) == [type |-> type, arg |-> arg]
CloseFrame == Msg("Close", "")
ErrorFrame(kind) == Msg("Error", kind)

\* UnboundedSender::send: the frame is queued unless the receiver is gone.
tx_send(ob, c, m) == IF c \in rx_closed THEN ob ELSE [ob EXCEPT ![c] = Append(@, m)]

\* ws.rs close: a close frame on the connection's queue; a failure is ignored.
close(ob, c) == tx_send(ob, c, CloseFrame)

\* ws.rs send_or_close: queue the frame, or close the connection if that fails.
\* (The flusher task owns the receiver for as long as a sender exists, so in the
\* lobby rx_closed stays empty.)
send_or_close(ob, c, m) == IF c \in rx_closed THEN close(ob, c) ELSE tx_send(ob, c, m)

\* Option<String>: None, Some(s), and the acks clients put on their frames.
NoAck == [some |-> FALSE, s |-> ""]
Some(s) == [some |-> TRUE, s |-> s]
Acks == {Some("a1"), Some("")}

\* A frame the read loop takes from the stream: its kind, whether its text is
\* JSON, and the string under "ack" if there is one.
ClientFrame(kind, json, ack) == [kind |-> kind, json |-> json, ack |-> ack]
NoFrame == ClientFrame("", FALSE, NoAck)

\* serde_json::Value: an object (a map from keys to values) or something else.
JsonObject(map) == [object |-> TRUE, v |-> map]
JsonOther(text) == [object |-> FALSE, v |-> [scalar |-> text]]

\* serde_json::Map::insert: the key is added, or its value replaced.
MapInsert(map, key, value) ==
    [k \in DOMAIN map \cup {key} |-> IF k = key THEN value ELSE map[k]]

\* warp Message::text of the serialized document.
MessageText(doc) == [text |-> doc]

\* Mutant of make_message: the ack is inserted only when there is none.
make_message_inverted(value, ack) ==
    IF value.object
    THEN IF ack = NoAck THEN MessageText(JsonObject(MapInsert(value.v, "ack", ack.s)))
         ELSE MessageText(value)
    ELSE MessageText(value)

\* ws.rs make_message, lines 168-178, on the value to_value returned.
make_message(value, ack) ==
    IF value.object
    THEN IF ack # NoAck THEN MessageText(JsonObject(MapInsert(value.v, "ack", ack.s)))
         ELSE MessageText(value)
    ELSE MessageText(value)

\* serde_json::to_value of a ServerMessage (tag = "type", content = "data"): an
\* object.
to_value(m) == JsonObject(m)

\* ws.rs serialize_and_send: make_message with the ack, then send_or_close; a
\* queue holds the documents of its text frames.
serialize_and_send_ack(ob, c, m, ack) ==
    send_or_close(ob, c, make_message(to_value(m), ack).text.v)

\* ws.rs serialize_and_send (no ack): make_message then send_or_close.
serialize_and_send(ob, c, m) == send_or_close(ob, c, m)

\* Mutant of serialize_and_send_and_close: the close frame is forgotten.
serialize_and_send_no_close(ob, c, m) == serialize_and_send(ob, c, m)

\* ws.rs serialize_and_send_and_close: the frame, then a close frame.
serialize_and_send_and_close(ob, c, m) == close(serialize_and_send(ob, c, m), c)

\* ------------------------------------------------------------------- rooms
\* rooms.rs Player::new, with the cancel_cleanup field lobby.rs uses.
PlayerNew(username, t) ==
    [username |-> username, score |-> 0, ws |-> NoConn, created_at |-> t,
     cancel_cleanup |-> NoCancel]

\* rooms.rs Room::new, with the cancel_cleanup field lobby.rs uses.
RoomNew(code, leader) ==
    [code |-> code, leader |-> leader.username,
     players |-> (leader.username :> leader), cancel_cleanup |-> NoCancel]

HasPlayer(rm, u) == u \in DOMAIN rm.players

\* Mutant of PlayerDto: is_online is computed with is_none.
PlayerDtoInverted(player) ==
    [username |-> player.username, score |-> player.score,
     is_online |-> player.ws = NoConn]

\* rooms.rs impl From<&Player> for PlayerDto.
PlayerDto(player) ==
    [username |-> player.username, score |-> player.score,
     is_online |-> player.ws # NoConn]

\* rooms.rs impl From<&Room> for RoomDto: one PlayerDto per value of the
\* players map, in the map's iteration order.
RoomDto(rm) ==
    LET RECURSIVE collect(_)
        collect(i) ==
            IF i > Len(PlayersOrder) THEN <<>>
            ELSE IF HasPlayer(rm, PlayersOrder[i])
            THEN <<PlayerDto(rm.players[PlayersOrder[i]])>> \o collect(i + 1)
            ELSE collect(i + 1)
    IN [code |-> rm.code, leader |-> rm.leader, players |-> collect(1)]

\* rooms.rs RoomSyncDto.
RoomSyncDto(you, rm) == [you |-> you, room |-> RoomDto(rm)]

\* No RoomSyncDto was returned.
NoSync == [you |-> "", room |-> [code |-> 0, leader |-> "", players |-> <<>>]]

\* The connections a fan-out reaches: every player with ws = Some.
Online(rm) == {rm.players[u].ws : u \in {v \in DOMAIN rm.players : rm.players[v].ws # NoConn}}

\* Mutant of RoomSend: the loop stops at the first recipient whose queue has
\* no receiver.
RoomSendStopping(ob, rm, m) ==
    LET message == make_message(to_value(m), NoAck).text.v
        RECURSIVE visit(_, _)
        visit(i, q) ==
            IF i > Len(PlayersOrder) THEN q
            ELSE LET u == PlayersOrder[i] IN
                 IF HasPlayer(rm, u) /\ rm.players[u].ws # NoConn
                 THEN IF rm.players[u].ws \in rx_closed THEN q
                      ELSE visit(i + 1, send_or_close(q, rm.players[u].ws, message))
                 ELSE visit(i + 1, q)
    IN visit(1, ob)

\* Room::send: the message is built by make_message without an ack; the
\* players are visited one after the other and the frame goes to
\* send_or_close for each whose ws is Some; the result is not looked at.
RoomSend(ob, rm, m) ==
    LET message == make_message(to_value(m), NoAck).text.v
        RECURSIVE visit(_, _)
        visit(i, q) ==
            IF i > Len(PlayersOrder) THEN q
            ELSE LET u == PlayersOrder[i] IN
                 IF HasPlayer(rm, u) /\ rm.players[u].ws # NoConn
                 THEN visit(i + 1, send_or_close(q, rm.players[u].ws, message))
                 ELSE visit(i + 1, q)
    IN visit(1, ob)

\* Mutant of RoomSendExcept: the player named `except` is not skipped.
RoomSendExceptNobody(ob, rm, m, except) ==
    LET message == make_message(to_value(m), NoAck).text.v
        RECURSIVE visit(_, _)
        visit(i, q) ==
            IF i > Len(PlayersOrder) THEN q
            ELSE LET u == PlayersOrder[i] IN
                 IF HasPlayer(rm, u) /\ rm.players[u].ws # NoConn
                 THEN visit(i + 1, send_or_close(q, rm.players[u].ws, message))
                 ELSE visit(i + 1, q)
    IN visit(1, ob)

\* Room::send_except: the same loop, skipping the player named `except`.
RoomSendExcept(ob, rm, m, except) ==
    LET message == make_message(to_value(m), NoAck).text.v
        RECURSIVE visit(_, _)
        visit(i, q) ==
            IF i > Len(PlayersOrder) THEN q
            ELSE LET u == PlayersOrder[i] IN
                 IF HasPlayer(rm, u) /\ u # except /\ rm.players[u].ws # NoConn
                 THEN visit(i + 1, send_or_close(q, rm.players[u].ws, message))
                 ELSE visit(i + 1, q)
    IN visit(1, ob)

\* ------------------------------------------------------------------- tasks
Task(op, pc, r, u, c, code, iat) ==
    [op |-> op, pc |-> pc, r |-> r, u |-> u, c |-> c, code |-> code, iat |-> iat]

Running == BagToSet(tasks)
Spawn(t) == tasks (+) SetToBag({t})
End(t) == tasks (-) SetToBag({t})
Move(t, t2) == (tasks (-) SetToBag({t})) (+) SetToBag({t2})

\* Positions of a session inside handle_add: about to send to a player, in
\* the order of PlayersOrder, or past the last one.
AddPcs == Users \cup {"reply"}

\* do_room_cleanup keeps the Room's read guard from its first line to its last;
\* handle_add keeps one while Room::send runs.
ReadLocked(r) ==
    \E t \in Running :
        /\ t.r = r
        /\ \/ t.op = "do_room_cleanup" /\ t.pc \in {"remove", "push"}
           \/ t.op = "session" /\ t.pc \in AddPcs

\* The locks: state.rooms, each Room's RwLock, state.available_codes.
Lock(kind, r) == [kind |-> kind, r |-> r]
Registry == Lock("Registry", 0)
RoomLock(r) == Lock("Room", r)
CodePool == Lock("CodePool", 0)

\* The guards task t holds while it is suspended at its position: the Room's
\* read guard of do_room_cleanup (line 345, kept to the end of the function)
\* and of handle_add; every other guard is dropped before the next await.
HeldLocks(t) ==
    IF \/ t.op = "do_room_cleanup" /\ t.pc \in {"remove", "push"}
       \/ t.op = "session" /\ t.pc \in AddPcs
    THEN {RoomLock(t.r)}
    ELSE {}

\* The locks task t may await next at its position.
WantedLocks(t) ==
    IF t.op = "create_room" /\ t.pc = "insert" THEN {Registry, CodePool}
    ELSE IF t.op = "do_room_cleanup" /\ t.pc = "remove" THEN {Registry}
    ELSE IF t.op = "do_room_cleanup" /\ t.pc = "push" THEN {CodePool}
    ELSE IF t.op = "session" /\ t.pc \in AddPcs THEN {}
    ELSE {RoomLock(t.r)}

\* wrapped_room.write().await returns only when no guard is out.
CanWrite(r) == ~ReadLocked(r)

\* --------------------------------------------------------------- replies
Reply(op, res, r, u, c, code, iat) ==
    [op |-> op, res |-> res, r |-> r, u |-> u, c |-> c, code |-> code, iat |-> iat]
NoReply == Reply("", "", 0, "", 0, 0, 0)

\* ------------------------------------------------------------------- auth
\* auth.rs JwtClaims.
Claims(iat, code, u) == [iat |-> iat, room_code |-> code, username |-> u]

\* State.jwt_secret of the running server, and a secret that is not the server's.
jwt_secret == "JWT_SECRET"
OtherSecret == "other"

\* jsonwebtoken Header::default() and Validation::default().algorithms.
HeaderDefault == [alg |-> "HS256", typ |-> "JWT"]
ValidationDefault == [algorithms |-> {"HS256"}, validate_exp |-> TRUE,
                      required_spec_claims |-> {"exp"}]

\* The HMAC of the header and the payload under a key: equal exactly when the
\* key and the signed parts are equal.
sign(key, header, payload) == [key |-> key, header |-> header, payload |-> payload]

\* serde_json of JwtClaims and back: an object with the three fields; reading
\* needs iat to be a u64 and the two strings to be there, and ignores the rest.
claims_to_value(claims) ==
    JsonObject([iat |-> claims.iat, room_code |-> claims.room_code,
                username |-> claims.username])
claims_from_value(value) ==
    IF /\ value.object
       /\ {"iat", "room_code", "username"} \subseteq DOMAIN value.v
       /\ value.v.iat \in Nat
    THEN [ok |-> TRUE, claims |-> Claims(value.v.iat, value.v.room_code, value.v.username)]
    ELSE [ok |-> FALSE, claims |-> Claims(-1, 0, "")]

\* auth.rs encode_token: jsonwebtoken::encode of the claims with the default
\* header, signed with the secret.
encode_token(secret, iat, room_code, username) ==
    LET payload == claims_to_value(Claims(iat, room_code, username))
    IN [header |-> HeaderDefault, payload |-> payload,
        signature |-> sign(secret, HeaderDefault, payload)]

\* jsonwebtoken::decode: the signature and the algorithm are verified, then
\* the claims the validation requires and the expiry, then the claims are read.
jwt_decode(token, secret, validation) ==
    IF \/ token.signature # sign(secret, token.header, token.payload)
       \/ token.header.alg \notin validation.algorithms
       \/ ~token.payload.object
       \/ ~(validation.required_spec_claims \subseteq DOMAIN token.payload.v)
       \/ validation.validate_exp /\ "exp" \in DOMAIN token.payload.v
             /\ token.payload.v.exp < now
    THEN [ok |-> FALSE, claims |-> Claims(-1, 0, "")]
    ELSE claims_from_value(token.payload)

\* Mutant of decode_token: the default validation is used as it is.
decode_token_requiring_exp(secret, token) == jwt_decode(token, secret, ValidationDefault)

\* auth.rs decode_token: the default validation with validate_exp off and no
\* required claim.
decode_token(secret, token) ==
    jwt_decode(token, secret,
               [ValidationDefault EXCEPT !.validate_exp = FALSE,
                                         !.required_spec_claims = {}])

\* ------------------------------------------------------------- code pool
\* Mutant of pop_room_code: the last element is read and left in the pool.
pop_room_code_keep(pool) ==
    IF pool = <<>>
    THEN [ok |-> FALSE, code |-> 0, rest |-> pool]
    ELSE [ok |-> TRUE, code |-> pool[Len(pool)], rest |-> pool]

\* lobby.rs pop_room_code: Vec::pop takes the last element.
pop_room_code(pool) ==
    IF pool = <<>>
    THEN [ok |-> FALSE, code |-> 0, rest |-> pool]
    ELSE [ok |-> TRUE, code |-> pool[Len(pool)], rest |-> SubSeq(pool, 1, Len(pool) - 1)]

\* Mutant of push_room_code: the code is not put back.
push_room_code_lost(pool, code) == pool

\* lobby.rs push_room_code: Vec::push appends.
push_room_code(pool, code) == Append(pool, code)

\* state.rs generate_available_codes: every code once, in a shuffled order.
Shuffles(n) ==
    {s \in [1 .. n -> 0 .. (n - 1)] : \A i, j \in 1 .. n : i # j => s[i] # s[j]}

\* -------------------------------------------------- schedule_player_cleanup
\* Mutant of schedule_player_cleanup: no sender is stored.
schedule_player_cleanup_skipped(rm, u) == rm

\* The critical section of schedule_player_cleanup: a player that is gone is
\* left alone; otherwise the new sender replaces (and so drops) the stored one.
schedule_player_cleanup(rm, u) ==
    IF HasPlayer(rm, u)
    THEN [rm EXCEPT !.players[u].cancel_cleanup = "Armed"]
    ELSE rm


\* ------------------------------------------------------------- State::new
\* No function is being applied on its own.
NoEval == [fn |-> "none"]

\* u8::MAX: the widest value ROOM_CODE_LENGTH parses to.
U8Max == 255

\* A u32 is kept as two 16-bit halves, so that wrapping at 2^32 is computed
\* exactly.
U16 == 2 ^ 16
u32(n) == [hi |-> (n \div U16) % U16, lo |-> n % U16]
as_usize(x) == x.hi * U16 + x.lo

\* u32 multiplication by a small factor in a release build: wraps at 2^32.
wrapping_mul(x, m) ==
    [hi |-> (x.hi * m + (x.lo * m) \div U16) % U16, lo |-> (x.lo * m) % U16]

\* state.rs line 22: the length used when ROOM_CODE_LENGTH is unset or unparsable.
DefaultCodeLength == 4

\* state.rs line 33: generate_available_codes panics above this length.
MaxCodeLength == 9

\* state.rs line 37: codes are decimal.
Radix == 10

\* The environment variable: unset, text that is no number, or a decimal number.
EnvUnset == [kind |-> "unset", n |-> 0]
EnvText == [kind |-> "text", n |-> 0]
EnvNumber(n) == [kind |-> "number", n |-> n]

\* helpers.rs get_env_or_default::<u8>: the parsed value, the default when the
\* variable is unset or u8::from_str fails (not a number, or outside 0..=255).
get_env_or_default(env, default) ==
    IF env.kind = "number" /\ env.n >= 0 /\ env.n <= U8Max THEN env.n ELSE default

\* u32::pow in a release build: the product wraps at 2^32.
RECURSIVE pow(_, _)
pow(base, exp) == IF exp = 0 THEN u32(1) ELSE wrapping_mul(pow(base, exp - 1), base)

\* The decimal digits of c, most significant first.
RECURSIVE Decimal(_)
Decimal(c) == IF c < Radix THEN <<c>> ELSE Append(Decimal(c \div Radix), c % Radix)

\* format!("{:0width$}", c): the digits of c, zero-padded on the left to at
\* least width characters.
RECURSIVE format(_, _)
format(c, width) ==
    IF Len(Decimal(c)) >= width THEN Decimal(c)
    ELSE <<0>> \o format(c, width - 1)

\* Vec::swap of positions i and j.
swap(s, i, j) == [s EXCEPT ![i] = s[j], ![j] = s[i]]

\* slice::shuffle: the orders reachable with at most k swaps.
RECURSIVE shuffle(_, _)
shuffle(s, k) ==
    IF k = 0 THEN {s}
    ELSE UNION {{swap(x, i, j) : i, j \in 1 .. Len(x)} : x \in shuffle(s, k - 1)}

\* state.rs generate_available_codes, before the shuffle: the codes of
\* 0 .. number_of_codes - 1 in order.
generate_available_codes(code_length, number_of_codes) ==
    [i \in 1 .. as_usize(number_of_codes) |-> format(i - 1, code_length)]

\* ------------------------------------------------------------------- Init
\* State::new: an empty registry and the shuffled pool; nothing is running.
InitState(lim) ==
    /\ available_codes \in Shuffles(lim.codes)
    /\ rooms = <<>>
    /\ room = <<>>
    /\ tasks = EmptyBag
    /\ outbox = <<>>
    /\ tokens = {}
    /\ now = 0
    /\ calls = [creates |-> 0, joins |-> 0, conns |-> 0, adds |-> 0, frames |-> 0]
    /\ limit = lim
    /\ reply = NoReply
    /\ destroyed = <<>>
    /\ last_ok = {}
    /\ superseded = {}
    /\ pd_run = <<>>
    /\ room_cancels = <<>>
    /\ rx_closed = {}
    /\ sync = NoSync
    /\ received = NoFrame
    /\ eval = NoEval

\* What the environment does at most, and the size of the code universe.
Limit(creates, joins, conns, ticks, codes) ==
    [creates |-> creates, joins |-> joins, conns |-> conns, ticks |-> ticks,
     codes |-> codes, adds |-> 0, frames |-> 0]

Init == InitState(Limit(MaxCreates, MaxJoins, MaxConns, MaxTicks, NumCodes))

\* The part of the state only create/destroy touch.
Remove(f, k) == [x \in DOMAIN f \ {k} |-> f[x]]
Put(f, k, v) == (k :> v) @@ f

\* ------------------------------------------------------------ create_room
\* create_room, lines 38-41: pop a code or fail with OutOfRoomCodes.
CreatePop(u) ==
    /\ calls.creates < limit.creates
    /\ calls' = [calls EXCEPT !.creates = @ + 1]
    /\ LET p == pop_room_code(available_codes) IN
       IF p.ok
       THEN /\ available_codes' = p.rest
            /\ tasks' = Spawn(Task("create_room", "insert", 0, u, 0, p.code, 0))
            /\ reply' = NoReply
       ELSE /\ reply' = Reply("create_room", "OutOfRoomCodes", 0, u, 0, 0, 0)
            /\ UNCHANGED <<available_codes, tasks>>
    /\ sync' = NoSync
    /\ received' = NoFrame
    /\ eval' = eval
    /\ UNCHANGED <<rooms, room, outbox, tokens, now, limit, destroyed, last_ok, superseded, pd_run, room_cancels,
                   rx_closed>>

\* create_room_with_code, lines 236-246: the leader, its token, the Room, and
\* the insert into the registry (HashMap::insert replaces an entry of that key).
CreateInsert(t) ==
    /\ t.op = "create_room" /\ t.pc = "insert"
    /\ LET r == Len(room) + 1
           leader == PlayerNew(t.u, now)
       IN /\ room' = Append(room, RoomNew(t.code, leader))
          /\ rooms' = Put(rooms, t.code, r)
          /\ destroyed' = Append(destroyed, 0)
          /\ pd_run' = Append(pd_run, [u \in Users |-> 0])
          /\ room_cancels' = Append(room_cancels, 0)
          /\ tasks' = Move(t, [t EXCEPT !.pc = "arm", !.r = r, !.iat = leader.created_at])
    /\ reply' = NoReply
    /\ sync' = NoSync
    /\ received' = NoFrame
    /\ eval' = eval
    /\ UNCHANGED <<available_codes, outbox, tokens, now, calls, limit, last_ok, superseded,
                   rx_closed>>

\* create_room_with_code, line 237, when encode_token fails, then create_room
\* lines 50-55: the Room is never built, the code is pushed back and the error
\* is returned.
CreateEncodeFail(t) ==
    /\ t.op = "create_room" /\ t.pc = "insert"
    /\ available_codes' = push_room_code(available_codes, t.code)
    /\ tasks' = End(t)
    /\ reply' = Reply("create_room", "Unknown", 0, t.u, 0, t.code, 0)
    /\ sync' = NoSync
    /\ received' = NoFrame
    /\ eval' = eval
    /\ UNCHANGED <<rooms, room, outbox, tokens, now, calls, limit, destroyed, last_ok,
                   superseded, pd_run, room_cancels, rx_closed>>

\* create_room_with_code, lines 248-253: arm the leader's cleanup and reply.
CreateArm(t) ==
    /\ t.op = "create_room" /\ t.pc = "arm"
    /\ CanWrite(t.r)
    /\ room' = [room EXCEPT ![t.r] = schedule_player_cleanup(@, t.u)]
    /\ tasks' = End(t)
    /\ tokens' = tokens \cup {encode_token(jwt_secret, t.iat, t.code, t.u)}
    /\ reply' = Reply("create_room", "Ok", t.r, t.u, 0, t.code, t.iat)
    /\ sync' = NoSync
    /\ received' = NoFrame
    /\ eval' = eval
    /\ UNCHANGED <<available_codes, rooms, outbox, now, calls, limit, destroyed,
                   last_ok, superseded, pd_run, room_cancels, rx_closed>>

\* -------------------------------------------------------------- join_room
\* join_room, lines 70-79: look the room up under the registry's read lock.
JoinLookup(code, u) ==
    /\ calls.joins < limit.joins
    /\ calls' = [calls EXCEPT !.joins = @ + 1]
    /\ IF code \in DOMAIN rooms
       THEN /\ tasks' = Spawn(Task("join_room", "lock", rooms[code], u, 0, code, 0))
            /\ reply' = NoReply
       ELSE /\ reply' = Reply("join_room", "RoomNotFound", 0, u, 0, code, 0)
            /\ UNCHANGED tasks
    /\ sync' = NoSync
    /\ received' = NoFrame
    /\ eval' = eval
    /\ UNCHANGED <<available_codes, rooms, room, outbox, tokens, now, limit, destroyed,
                   last_ok, superseded, pd_run, room_cancels, rx_closed>>

\* Mutant of join_room_locked: the Room's canceller is left where it is.
join_room_not_cancelling(rm, ob, u, t) ==
    IF HasPlayer(rm, u)
    THEN [res |-> "UsernameTaken", rm |-> rm, ob |-> ob]
    ELSE LET player == PlayerNew(u, t)
             rm1 == [rm EXCEPT !.players = Put(@, u, player)]
         IN [res |-> "Ok", rm |-> rm1, ob |-> RoomSend(ob, rm1, Msg("PlayerJoined", u))]

\* Mutant of join_room_locked: the username is not looked up first, the new
\* Player replaces the one seated.
join_room_replacing(rm, ob, u, t) ==
    LET player == PlayerNew(u, t)
        rm1 == [rm EXCEPT !.players = [x \in DOMAIN @ \cup {u} |->
                                          IF x = u THEN player ELSE @[x]]]
    IN [res |-> "Ok",
        rm |-> [rm1 EXCEPT !.cancel_cleanup = NoCancel],
        ob |-> RoomSend(ob, rm1, Msg("PlayerJoined", u))]

\* join_room, lines 81-112, under the Room's write lock: the result, the Room
\* and the queues afterwards.
join_room_locked(rm, ob, u, t) ==
    IF HasPlayer(rm, u)
    THEN [res |-> "UsernameTaken", rm |-> rm, ob |-> ob]
    ELSE LET player == PlayerNew(u, t)
             rm1 == [rm EXCEPT !.players = Put(@, u, player)]
         IN [res |-> "Ok",
             rm |-> [rm1 EXCEPT !.cancel_cleanup = NoCancel],
             ob |-> RoomSend(ob, rm1, Msg("PlayerJoined", u))]

JoinLock(t) ==
    /\ t.op = "join_room" /\ t.pc = "lock"
    /\ CanWrite(t.r)
    /\ LET j == join_room_locked(room[t.r], outbox, t.u, now) IN
       /\ room' = [room EXCEPT ![t.r] = j.rm]
       /\ outbox' = j.ob
       /\ IF j.res = "Ok"
          THEN /\ tasks' = Move(t, [t EXCEPT !.pc = "arm", !.iat = now])
               /\ reply' = NoReply
               /\ pd_run' = [pd_run EXCEPT ![t.r][t.u] = 0]
               /\ room_cancels' = IF room[t.r].cancel_cleanup = "Armed"
                                  THEN [room_cancels EXCEPT ![t.r] = @ + 1]
                                  ELSE room_cancels
          ELSE /\ tasks' = End(t)
               /\ reply' = Reply("join_room", j.res, t.r, t.u, 0, t.code, 0)
               /\ UNCHANGED <<pd_run, room_cancels>>
    /\ sync' = NoSync
    /\ received' = NoFrame
    /\ eval' = eval
    /\ UNCHANGED <<available_codes, rooms, tokens, now, calls, limit, destroyed,
                   last_ok, superseded, rx_closed>>

\* join_room, lines 114-124: arm the new player's cleanup and reply.
JoinArm(t) ==
    /\ t.op = "join_room" /\ t.pc = "arm"
    /\ CanWrite(t.r)
    /\ room' = [room EXCEPT ![t.r] = schedule_player_cleanup(@, t.u)]
    /\ tasks' = End(t)
    /\ tokens' = tokens \cup {encode_token(jwt_secret, t.iat, t.code, t.u)}
    /\ reply' = Reply("join_room", "Ok", t.r, t.u, 0, t.code, t.iat)
    /\ sync' = NoSync
    /\ received' = NoFrame
    /\ eval' = eval
    /\ UNCHANGED <<available_codes, rooms, outbox, now, calls, limit, destroyed,
                   last_ok, superseded, pd_run, room_cancels, rx_closed>>

\* ---------------------------------------------------------- player cleanup
\* schedule_player_cleanup, lines 290-294: timeout(duration, rx) elapses for the
\* receiver of the sender the player still stores.
PlayerTimeout(r, u) ==
    /\ r \in DOMAIN room
    /\ HasPlayer(room[r], u)
    /\ room[r].players[u].cancel_cleanup = "Armed"
    /\ room' = [room EXCEPT ![r].players[u].cancel_cleanup = "Stale"]
    /\ tasks' = Spawn(Task("do_player_cleanup", "lock", r, u, 0, 0, 0))
    /\ reply' = NoReply
    /\ sync' = NoSync
    /\ received' = NoFrame
    /\ eval' = eval
    /\ UNCHANGED <<available_codes, rooms, outbox, tokens, now, calls, limit, destroyed,
                   last_ok, superseded, pd_run, room_cancels, rx_closed>>

\* Mutant of do_player_cleanup_locked: the connection is not looked at.
do_player_cleanup_any(rm, ob, u) ==
    IF ~HasPlayer(rm, u)
    THEN [removed |-> FALSE, is_empty |-> FALSE, rm |-> rm, ob |-> ob]
    ELSE LET rm1 == [rm EXCEPT !.players = Remove(@, u)]
         IN [removed |-> TRUE, is_empty |-> DOMAIN rm1.players = {}, rm |-> rm1,
             ob |-> RoomSend(ob, rm1, Msg("PlayerLeft", u))]

\* Mutant of do_player_cleanup_locked: the timer gives up on every player.
do_player_cleanup_aborting(rm, ob, u) ==
    [removed |-> FALSE, is_empty |-> FALSE, rm |-> rm, ob |-> ob]

\* Mutant of do_player_cleanup_locked: when the leader is removed, a remaining
\* player becomes the leader.
do_player_cleanup_reassigning(rm, ob, u) ==
    IF ~HasPlayer(rm, u)
    THEN [removed |-> FALSE, is_empty |-> FALSE, rm |-> rm, ob |-> ob]
    ELSE IF rm.players[u].ws # NoConn
    THEN [removed |-> FALSE, is_empty |-> FALSE, rm |-> rm, ob |-> ob]
    ELSE LET left == Remove(rm.players, u)
             rm1 == [rm EXCEPT !.players = left,
                               !.leader = IF @ = u /\ DOMAIN left # {}
                                          THEN CHOOSE v \in DOMAIN left : TRUE ELSE @]
         IN [removed |-> TRUE, is_empty |-> DOMAIN rm1.players = {}, rm |-> rm1,
             ob |-> RoomSend(ob, rm1, Msg("PlayerLeft", u))]

\* do_player_cleanup, lines 300-320, under the Room's write lock.
do_player_cleanup_locked(rm, ob, u) ==
    IF ~HasPlayer(rm, u)
    THEN [removed |-> FALSE, is_empty |-> FALSE, rm |-> rm, ob |-> ob]
    ELSE IF rm.players[u].ws # NoConn
    THEN [removed |-> FALSE, is_empty |-> FALSE, rm |-> rm, ob |-> ob]
    ELSE LET rm1 == [rm EXCEPT !.players = Remove(@, u)]
         IN [removed |-> TRUE, is_empty |-> DOMAIN rm1.players = {}, rm |-> rm1,
             ob |-> RoomSend(ob, rm1, Msg("PlayerLeft", u))]

DoPlayerCleanup(t) ==
    /\ t.op = "do_player_cleanup" /\ t.pc = "lock"
    /\ CanWrite(t.r)
    /\ LET d == do_player_cleanup_locked(room[t.r], outbox, t.u) IN
       /\ room' = [room EXCEPT ![t.r] = d.rm]
       /\ outbox' = d.ob
       /\ tasks' = IF d.is_empty THEN Move(t, [t EXCEPT !.pc = "schedule_room"])
                                 ELSE End(t)
    /\ reply' = NoReply
    /\ sync' = NoSync
    /\ received' = NoFrame
    /\ eval' = eval
    /\ UNCHANGED <<available_codes, rooms, tokens, now, calls, limit, destroyed,
                   last_ok, superseded, pd_run, room_cancels, rx_closed>>

\* ------------------------------------------------------------ room cleanup
\* schedule_room_cleanup, lines 334-335: store a fresh sender in the Room.
schedule_room_cleanup(rm) == [rm EXCEPT !.cancel_cleanup = "Armed"]

ScheduleRoomCleanup(t) ==
    /\ t.op = "do_player_cleanup" /\ t.pc = "schedule_room"
    /\ CanWrite(t.r)
    /\ room' = [room EXCEPT ![t.r] = schedule_room_cleanup(@)]
    /\ tasks' = End(t)
    /\ reply' = NoReply
    /\ sync' = NoSync
    /\ received' = NoFrame
    /\ eval' = eval
    /\ UNCHANGED <<available_codes, rooms, outbox, tokens, now, calls, limit, destroyed,
                   last_ok, superseded, pd_run, room_cancels, rx_closed>>

\* schedule_room_cleanup, lines 336-340: the timeout elapses.
RoomTimeout(r) ==
    /\ r \in DOMAIN room
    /\ room[r].cancel_cleanup = "Armed"
    /\ room' = [room EXCEPT ![r].cancel_cleanup = "Stale"]
    /\ tasks' = Spawn(Task("do_room_cleanup", "lock", r, "", 0, 0, 0))
    /\ reply' = NoReply
    /\ sync' = NoSync
    /\ received' = NoFrame
    /\ eval' = eval
    /\ UNCHANGED <<available_codes, rooms, outbox, tokens, now, calls, limit, destroyed,
                   last_ok, superseded, pd_run, room_cancels, rx_closed>>

\* Mutant of do_room_cleanup_proceeds: the timer always aborts.
do_room_cleanup_never(rm) == FALSE

\* do_room_cleanup, lines 345-350: whether it goes on to destroy the Room.
do_room_cleanup_proceeds(rm) == DOMAIN rm.players = {}

\* do_room_cleanup, lines 345-350: take the read guard and look at the players.
DoRoomCleanupLock(t) ==
    /\ t.op = "do_room_cleanup" /\ t.pc = "lock"
    /\ tasks' = IF do_room_cleanup_proceeds(room[t.r])
                THEN Move(t, [t EXCEPT !.pc = "remove"])
                ELSE End(t)
    /\ reply' = NoReply
    /\ sync' = NoSync
    /\ received' = NoFrame
    /\ eval' = eval
    /\ UNCHANGED <<available_codes, rooms, room, outbox, tokens, now, calls, limit,
                   destroyed, last_ok, superseded, pd_run, room_cancels, rx_closed>>

\* do_room_cleanup, line 353: remove the registry entry of the Room's code.
DoRoomCleanupRemove(t) ==
    /\ t.op = "do_room_cleanup" /\ t.pc = "remove"
    /\ rooms' = Remove(rooms, room[t.r].code)
    /\ tasks' = Move(t, [t EXCEPT !.pc = "push"])
    /\ reply' = NoReply
    /\ sync' = NoSync
    /\ received' = NoFrame
    /\ eval' = eval
    /\ UNCHANGED <<available_codes, room, outbox, tokens, now, calls, limit, destroyed,
                   last_ok, superseded, pd_run, room_cancels, rx_closed>>

\* do_room_cleanup, line 354: push the code back; the read guard is dropped.
DoRoomCleanupPush(t) ==
    /\ t.op = "do_room_cleanup" /\ t.pc = "push"
    /\ available_codes' = push_room_code(available_codes, room[t.r].code)
    /\ destroyed' = [destroyed EXCEPT ![t.r] = @ + 1]
    /\ tasks' = End(t)
    /\ reply' = NoReply
    /\ sync' = NoSync
    /\ received' = NoFrame
    /\ eval' = eval
    /\ UNCHANGED <<rooms, room, outbox, tokens, now, calls, limit, last_ok, superseded, pd_run, room_cancels,
                   rx_closed>>

\* The clock Player::new reads moves on.
Tick ==
    /\ now < limit.ticks
    /\ now' = now + 1
    /\ reply' = NoReply
    /\ sync' = NoSync
    /\ received' = NoFrame
    /\ eval' = eval
    /\ UNCHANGED <<available_codes, rooms, room, tasks, outbox, tokens, calls, limit,
                   destroyed, last_ok, superseded, pd_run, room_cancels, rx_closed>>

\* ---------------------------------------------------------- connect_player
\* A token that was not signed with the server's secret.
BadToken == encode_token(OtherSecret, 0, 0, "alice")

\* handle_ws_upgrade up to the Room's lock: a new WsConnection, then
\* connect_player lines 138-150 (decode the token, look the room up).  A failure
\* is sent to the new connection with serialize_and_send_and_close.
ConnectLookup(tok) ==
    /\ calls.conns < limit.conns
    /\ calls' = [calls EXCEPT !.conns = @ + 1]
    /\ LET c == Len(outbox) + 1
           d == decode_token(jwt_secret, tok)
           fail(kind) ==
               /\ outbox' = serialize_and_send_and_close(Append(outbox, <<>>), c,
                                                         ErrorFrame(kind))
               /\ reply' = Reply("connect_player", kind, 0, d.claims.username, c,
                                 d.claims.room_code, d.claims.iat)
               /\ UNCHANGED tasks
       IN IF ~d.ok THEN fail("InvalidToken")
          ELSE IF d.claims.room_code \notin DOMAIN rooms THEN fail("RoomNotFound")
          ELSE /\ outbox' = Append(outbox, <<>>)
               /\ tasks' = Spawn(Task("session", "lock", rooms[d.claims.room_code],
                                      d.claims.username, c, d.claims.room_code,
                                      d.claims.iat))
               /\ reply' = NoReply
    /\ sync' = NoSync
    /\ received' = NoFrame
    /\ eval' = eval
    /\ UNCHANGED <<available_codes, rooms, room, tokens, now, limit, destroyed, last_ok,
                   superseded, pd_run, room_cancels, rx_closed>>

\* Mutant of iat_matches: a token older than the seat is accepted as well.
iat_matches_lax(claims, player) == claims.iat <= player.created_at

\* connect_player, line 159: the token is of the seat's current version.
iat_matches(claims, player) == claims.iat = player.created_at

\* Mutant of close_old_ws: the error is sent, the close frame is not.
close_old_ws_no_close(ob, old_ws) ==
    IF old_ws # NoConn
    THEN serialize_and_send(ob, old_ws, ErrorFrame("ConnectedInAnotherDevice"))
    ELSE ob

\* connect_player, lines 167-172: tell a connection already installed to close.
close_old_ws(ob, old_ws) ==
    IF old_ws # NoConn
    THEN serialize_and_send_and_close(ob, old_ws, ErrorFrame("ConnectedInAnotherDevice"))
    ELSE ob

\* connect_player, lines 152-194, under the Room's write lock: the result, the
\* Room and the queues afterwards, and the connection it replaced.
connect_player_locked(rm, ob, claims, ws) ==
    IF ~HasPlayer(rm, claims.username)
    THEN [res |-> "PlayerNotInRoom", rm |-> rm, ob |-> ob, old |-> NoConn, sync |-> NoSync]
    ELSE IF ~iat_matches(claims, rm.players[claims.username])
    THEN [res |-> "UsernameTaken", rm |-> rm, ob |-> ob, old |-> NoConn, sync |-> NoSync]
    ELSE LET u == claims.username
             old_ws == rm.players[u].ws
             ob1 == close_old_ws(ob, old_ws)
             rm1 == [rm EXCEPT !.players[u].ws = ws,
                               !.players[u].cancel_cleanup = NoCancel]
         IN [res |-> "Ok", rm |-> rm1,
             ob |-> RoomSendExcept(ob1, rm1, Msg("PlayerConnected", u), u),
             old |-> old_ws,
             sync |-> RoomSyncDto(u, rm1)]

\* connect_player under the lock, then handle_ws_upgrade lines 80-89: the Sync
\* to the new connection, or the error and a close.
ConnectLock(t) ==
    /\ t.op = "session" /\ t.pc = "lock"
    /\ CanWrite(t.r)
    /\ LET k == connect_player_locked(room[t.r], outbox, Claims(t.iat, t.code, t.u), t.c) IN
       /\ room' = [room EXCEPT ![t.r] = k.rm]
       /\ reply' = Reply("connect_player", k.res, t.r, t.u, t.c, t.code, t.iat)
       /\ IF k.res = "Ok"
          THEN /\ outbox' = serialize_and_send(k.ob, t.c, Msg("Sync", t.u))
               /\ tasks' = Move(t, [t EXCEPT !.pc = "open"])
               /\ last_ok' = {x \in last_ok : ~(x[1] = t.r /\ x[2] = t.u)}
                                \cup {<<t.r, t.u, t.c>>}
               /\ superseded' = superseded \cup (IF k.old # NoConn THEN {k.old} ELSE {})
          ELSE /\ outbox' = serialize_and_send_and_close(k.ob, t.c, ErrorFrame(k.res))
               /\ tasks' = End(t)
               /\ UNCHANGED <<last_ok, superseded>>
    /\ sync' = connect_player_locked(room[t.r], outbox, Claims(t.iat, t.code, t.u), t.c).sync
    /\ received' = NoFrame
    /\ eval' = eval
    /\ UNCHANGED <<available_codes, rooms, tokens, now, calls, limit, destroyed, pd_run, room_cancels,
                   rx_closed>>

\* connect_player, lines 167-181, when make_message fails inside send_except:
\* the old connection was told to close, the new one is installed, the
\* canceller was taken out of the player and is dropped by the early return.
connect_player_send_fails(rm, ob, claims, ws) ==
    LET u == claims.username
        old_ws == rm.players[u].ws
    IN [res |-> "Unknown",
        rm |-> [rm EXCEPT !.players[u].ws = ws,
                          !.players[u].cancel_cleanup = NoCancel],
        ob |-> close_old_ws(ob, old_ws),
        old |-> old_ws]

\* connect_player passes its checks and fails at line 181; handle_ws_upgrade
\* lines 85-89 sends the error to the new connection, closes it and returns.
ConnectSendFail(t) ==
    /\ t.op = "session" /\ t.pc = "lock"
    /\ CanWrite(t.r)
    /\ connect_player_locked(room[t.r], outbox, Claims(t.iat, t.code, t.u), t.c).res = "Ok"
    /\ LET k == connect_player_send_fails(room[t.r], outbox, Claims(t.iat, t.code, t.u), t.c) IN
       /\ room' = [room EXCEPT ![t.r] = k.rm]
       /\ reply' = Reply("connect_player", k.res, t.r, t.u, t.c, t.code, t.iat)
       /\ outbox' = serialize_and_send_and_close(k.ob, t.c, ErrorFrame(k.res))
       /\ tasks' = End(t)
    /\ sync' = NoSync
    /\ received' = NoFrame
    /\ eval' = eval
    /\ UNCHANGED <<available_codes, rooms, tokens, now, calls, limit, destroyed, last_ok,
                   superseded, pd_run, room_cancels, rx_closed>>

\* ------------------------------------------------------- disconnect_player
\* ws.rs impl PartialEq for WsConnection: equal ids.
ws_eq(a, b) == a = b

\* Mutant of disconnect_player_locked: the closing handle is not compared with
\* the installed one.
disconnect_player_unchecked(rm, ob, u, ws) ==
    IF ~HasPlayer(rm, u)
    THEN [res |-> "PlayerNotInRoom", arm |-> FALSE, rm |-> rm, ob |-> ob]
    ELSE LET rm1 == [rm EXCEPT !.players[u].ws = NoConn]
         IN [res |-> "Ok", arm |-> TRUE, rm |-> rm1,
             ob |-> RoomSend(ob, rm1, Msg("PlayerDisconnected", u))]

\* disconnect_player, lines 209-224, under the Room's write lock.
disconnect_player_locked(rm, ob, u, ws) ==
    IF ~HasPlayer(rm, u)
    THEN [res |-> "PlayerNotInRoom", arm |-> FALSE, rm |-> rm, ob |-> ob]
    ELSE IF rm.players[u].ws # NoConn /\ ~ws_eq(rm.players[u].ws, ws)
    THEN [res |-> "Ok", arm |-> FALSE, rm |-> rm, ob |-> ob]
    ELSE LET rm1 == [rm EXCEPT !.players[u].ws = NoConn]
         IN [res |-> "Ok", arm |-> TRUE, rm |-> rm1,
             ob |-> RoomSend(ob, rm1, Msg("PlayerDisconnected", u))]

\* The read loop of handle_ws_upgrade ends (end of stream or a transport
\* error) and disconnect_player runs its critical section.
DisconnectLock(t) ==
    /\ t.op = "session" /\ t.pc = "open"
    /\ CanWrite(t.r)
    /\ LET d == disconnect_player_locked(room[t.r], outbox, t.u, t.c) IN
       /\ room' = [room EXCEPT ![t.r] = d.rm]
       /\ outbox' = d.ob
       /\ tasks' = IF d.arm THEN Move(t, [t EXCEPT !.pc = "arm"]) ELSE End(t)
       /\ reply' = Reply("disconnect_player", d.res, t.r, t.u, t.c, t.code, t.iat)
       /\ pd_run' = IF ~d.arm THEN pd_run
                    ELSE IF room[t.r].players[t.u].ws # NoConn
                    THEN [pd_run EXCEPT ![t.r][t.u] = 1]
                    ELSE [pd_run EXCEPT ![t.r][t.u] = @ + 1]
    /\ sync' = NoSync
    /\ received' = NoFrame
    /\ eval' = eval
    /\ UNCHANGED <<available_codes, rooms, tokens, now, calls, limit, destroyed, last_ok,
                   superseded, room_cancels, rx_closed>>

\* disconnect_player, line 226: arm the player's cleanup.
DisconnectArm(t) ==
    /\ t.op = "session" /\ t.pc = "arm"
    /\ CanWrite(t.r)
    /\ room' = [room EXCEPT ![t.r] = schedule_player_cleanup(@, t.u)]
    /\ tasks' = End(t)
    /\ reply' = NoReply
    /\ sync' = NoSync
    /\ received' = NoFrame
    /\ eval' = eval
    /\ UNCHANGED <<available_codes, rooms, outbox, tokens, now, calls, limit, destroyed,
                   last_ok, superseded, pd_run, room_cancels, rx_closed>>

\* ---------------------------------------------------------- handle_message
\* Frames that are not commands: one that is not text, a text that is not
\* JSON, and a JSON text (with or without a string under "ack") that is not a
\* ClientMessage.
BadFrames ==
    {ClientFrame("Binary", FALSE, NoAck), ClientFrame("Text", FALSE, NoAck)}
        \cup {ClientFrame("Text", TRUE, ack) : ack \in Acks \cup {NoAck}}

\* Mutant of handle_message_rejects: no ack on the second failure either.
handle_message_dropping_ack(ob, c, f) ==
    IF f.kind # "Text" THEN ob
    ELSE serialize_and_send_ack(ob, c, ErrorFrame("Unknown"), NoAck)

\* ws.rs handle_message, lines 113-153, for a frame that is not a command.
handle_message_rejects(ob, c, f) ==
    IF f.kind # "Text" THEN ob
    ELSE IF ~f.json THEN serialize_and_send_ack(ob, c, ErrorFrame("Unknown"), NoAck)
    ELSE serialize_and_send_ack(ob, c, ErrorFrame("Unknown"), f.ack)

\* The read loop of handle_ws_upgrade (lines 92-101) takes a frame that is not
\* a command and handle_message answers it.
HandleMessage(t, f) ==
    /\ t.op = "session" /\ t.pc = "open"
    /\ calls.frames < limit.frames
    /\ calls' = [calls EXCEPT !.frames = @ + 1]
    /\ outbox' = handle_message_rejects(outbox, t.c, f)
    /\ reply' = Reply("handle_message", "", t.r, t.u, t.c, t.code, t.iat)
    /\ sync' = NoSync
    /\ received' = f
    /\ eval' = eval
    /\ UNCHANGED <<available_codes, rooms, room, tasks, tokens, now, limit, destroyed,
                   last_ok, superseded, pd_run, room_cancels, rx_closed>>

\* -------------------------------------------------------------- handle_add
\* The player Room::send visits after u, or "reply" after the last one.
NextRecipient(u) ==
    LET i == CHOOSE k \in DOMAIN PlayersOrder : PlayersOrder[k] = u
    IN IF i = Len(PlayersOrder) THEN "reply" ELSE PlayersOrder[i + 1]

\* The read loop of handle_ws_upgrade takes an Add frame; handle_add takes the
\* Room's read guard (messages.rs line 48) and Room::send starts iterating.
AddStart(t) ==
    /\ t.op = "session" /\ t.pc = "open"
    /\ calls.adds < limit.adds
    /\ calls' = [calls EXCEPT !.adds = @ + 1]
    /\ tasks' = Move(t, [t EXCEPT !.pc = PlayersOrder[1]])
    /\ reply' = NoReply
    /\ sync' = NoSync
    /\ received' = NoFrame
    /\ eval' = eval
    /\ UNCHANGED <<available_codes, rooms, room, outbox, tokens, now, limit, destroyed,
                   last_ok, superseded, pd_run, room_cancels, rx_closed>>

\* Room::send, lines 138-143, one turn of the loop: the frame goes to the
\* player's connection if it has one.
AddSend(t) ==
    /\ t.op = "session" /\ t.pc \in Users
    /\ LET rm == room[t.r] IN
       outbox' = IF HasPlayer(rm, t.pc) /\ rm.players[t.pc].ws # NoConn
                 THEN send_or_close(outbox, rm.players[t.pc].ws, Msg("AddResult", t.u))
                 ELSE outbox
    /\ tasks' = Move(t, [t EXCEPT !.pc = NextRecipient(t.pc)])
    /\ reply' = NoReply
    /\ sync' = NoSync
    /\ received' = NoFrame
    /\ eval' = eval
    /\ UNCHANGED <<available_codes, rooms, room, tokens, now, calls, limit, destroyed,
                   last_ok, superseded, pd_run, room_cancels, rx_closed>>

\* handle_add returns Noop, the guard is dropped, and handle_message (ws.rs
\* line 159) sends the answer to the connection that asked.
AddReply(t) ==
    /\ t.op = "session" /\ t.pc = "reply"
    /\ outbox' = serialize_and_send(outbox, t.c, Msg("Noop", ""))
    /\ tasks' = Move(t, [t EXCEPT !.pc = "open"])
    /\ reply' = NoReply
    /\ sync' = NoSync
    /\ received' = NoFrame
    /\ eval' = eval
    /\ UNCHANGED <<available_codes, rooms, room, tokens, now, calls, limit, destroyed,
                   last_ok, superseded, pd_run, room_cancels, rx_closed>>

\* ------------------------------------------------------------------- Next
Next ==
    \/ \E u \in Users : CreatePop(u)
    \/ \E t \in Running : CreateInsert(t)
    \/ \E t \in Running : CreateArm(t)
    \/ \E code \in Codes, u \in Users : JoinLookup(code, u)
    \/ \E t \in Running : JoinLock(t)
    \/ \E t \in Running : JoinArm(t)
    \/ \E tok \in tokens \cup {BadToken} : ConnectLookup(tok)
    \/ \E t \in Running : ConnectLock(t)
    \/ \E t \in Running : DisconnectLock(t)
    \/ \E t \in Running : DisconnectArm(t)
    \/ \E r \in DOMAIN room, u \in Users : PlayerTimeout(r, u)
    \/ \E t \in Running : DoPlayerCleanup(t)
    \/ \E t \in Running : ScheduleRoomCleanup(t)
    \/ \E r \in DOMAIN room : RoomTimeout(r)
    \/ \E t \in Running : DoRoomCleanupLock(t)
    \/ \E t \in Running : DoRoomCleanupRemove(t)
    \/ \E t \in Running : DoRoomCleanupPush(t)
    \/ Tick

Spec == Init /\ [][Next]_vars

\* The lobby under clients that only create and join rooms, one create more
\* than there are codes.
InitExhaust == InitState(Limit(NumCodes + 1, MaxJoins, 0, 0, NumCodes))

NextExhaust ==
    \/ \E u \in Users : CreatePop(u)
    \/ \E t \in Running : CreateInsert(t)
    \/ \E t \in Running : CreateArm(t)
    \/ \E code \in Codes, u \in Users : JoinLookup(code, u)
    \/ \E t \in Running : JoinLock(t)
    \/ \E t \in Running : JoinArm(t)
    \/ \E r \in DOMAIN room, u \in Users : PlayerTimeout(r, u)
    \/ \E t \in Running : DoPlayerCleanup(t)
    \/ \E t \in Running : ScheduleRoomCleanup(t)
    \/ \E r \in DOMAIN room : RoomTimeout(r)
    \/ \E t \in Running : DoRoomCleanupLock(t)
    \/ \E t \in Running : DoRoomCleanupRemove(t)
    \/ \E t \in Running : DoRoomCleanupPush(t)

SpecExhaust == InitExhaust /\ [][NextExhaust]_vars

\* The lobby while nobody joins and the clock stands still: the leader's
\* connections come and go, one more of them than in Spec.
InitReconnect == InitState(Limit(MaxCreates, 0, MaxConns + 1, 0, NumCodes))

NextReconnect ==
    \/ \E u \in Users : CreatePop(u)
    \/ \E t \in Running : CreateInsert(t)
    \/ \E t \in Running : CreateArm(t)
    \/ \E tok \in tokens : ConnectLookup(tok)
    \/ \E t \in Running : ConnectLock(t)
    \/ \E t \in Running : DisconnectLock(t)
    \/ \E t \in Running : DisconnectArm(t)
    \/ \E r \in DOMAIN room, u \in Users : PlayerTimeout(r, u)
    \/ \E t \in Running : DoPlayerCleanup(t)
    \/ \E t \in Running : ScheduleRoomCleanup(t)
    \/ \E r \in DOMAIN room : RoomTimeout(r)
    \/ \E t \in Running : DoRoomCleanupLock(t)
    \/ \E t \in Running : DoRoomCleanupRemove(t)
    \/ \E t \in Running : DoRoomCleanupPush(t)

SpecReconnect == InitReconnect /\ [][NextReconnect]_vars

\* The lobby while the clock stands still and encode_token in create_room and
\* serialising PlayerConnected may fail.
InitFaulty == InitState(Limit(MaxCreates, MaxJoins, MaxConns, 0, NumCodes))

NextFaulty ==
    \/ \E u \in Users : CreatePop(u)
    \/ \E t \in Running : CreateInsert(t)
    \/ \E t \in Running : CreateEncodeFail(t)
    \/ \E t \in Running : CreateArm(t)
    \/ \E code \in Codes, u \in Users : JoinLookup(code, u)
    \/ \E t \in Running : JoinLock(t)
    \/ \E t \in Running : JoinArm(t)
    \/ \E tok \in tokens \cup {BadToken} : ConnectLookup(tok)
    \/ \E t \in Running : ConnectLock(t)
    \/ \E t \in Running : ConnectSendFail(t)
    \/ \E t \in Running : DisconnectLock(t)
    \/ \E t \in Running : DisconnectArm(t)
    \/ \E r \in DOMAIN room, u \in Users : PlayerTimeout(r, u)
    \/ \E t \in Running : DoPlayerCleanup(t)
    \/ \E t \in Running : ScheduleRoomCleanup(t)
    \/ \E r \in DOMAIN room : RoomTimeout(r)
    \/ \E t \in Running : DoRoomCleanupLock(t)
    \/ \E t \in Running : DoRoomCleanupRemove(t)
    \/ \E t \in Running : DoRoomCleanupPush(t)

SpecFaulty == InitFaulty /\ [][NextFaulty]_vars

\* The lobby while the clock stands still, with the scheduling tokio gives:
\* a task that can run its next step runs it, and an armed timer that is not
\* cancelled elapses.  Clients owe nothing: requests and the end of a
\* connection's stream may never come.
InitLive == InitState(Limit(MaxCreates, MaxJoins, MaxConns, 0, NumCodes))

NextLive ==
    \/ \E u \in Users : CreatePop(u)
    \/ \E t \in Running : CreateInsert(t)
    \/ \E t \in Running : CreateArm(t)
    \/ \E code \in Codes, u \in Users : JoinLookup(code, u)
    \/ \E t \in Running : JoinLock(t)
    \/ \E t \in Running : JoinArm(t)
    \/ \E tok \in tokens \cup {BadToken} : ConnectLookup(tok)
    \/ \E t \in Running : ConnectLock(t)
    \/ \E t \in Running : DisconnectLock(t)
    \/ \E t \in Running : DisconnectArm(t)
    \/ \E r \in DOMAIN room, u \in Users : PlayerTimeout(r, u)
    \/ \E t \in Running : DoPlayerCleanup(t)
    \/ \E t \in Running : ScheduleRoomCleanup(t)
    \/ \E r \in DOMAIN room : RoomTimeout(r)
    \/ \E t \in Running : DoRoomCleanupLock(t)
    \/ \E t \in Running : DoRoomCleanupRemove(t)
    \/ \E t \in Running : DoRoomCleanupPush(t)

\* Rooms are numbered in the order create_room builds them.
RoomSlots == 1 .. MaxCreates

Fairness ==
    /\ WF_vars(\E t \in Running : CreateInsert(t))
    /\ WF_vars(\E t \in Running : CreateArm(t))
    /\ WF_vars(\E t \in Running : JoinLock(t))
    /\ WF_vars(\E t \in Running : JoinArm(t))
    /\ WF_vars(\E t \in Running : ConnectLock(t))
    /\ WF_vars(\E t \in Running : DisconnectArm(t))
    /\ \A r \in RoomSlots, u \in Users : WF_vars(PlayerTimeout(r, u))
    /\ WF_vars(\E t \in Running : DoPlayerCleanup(t))
    /\ WF_vars(\E t \in Running : ScheduleRoomCleanup(t))
    /\ \A r \in RoomSlots : WF_vars(RoomTimeout(r))
    /\ WF_vars(\E t \in Running : DoRoomCleanupLock(t))
    /\ WF_vars(\E t \in Running : DoRoomCleanupRemove(t))
    /\ WF_vars(\E t \in Running : DoRoomCleanupPush(t))

SpecLive == InitLive /\ [][NextLive]_vars /\ Fairness

\* The first ten seconds of a lobby: no timer elapses yet; players join,
\* connect, send Add commands and disconnect.
InitChat ==
    InitState([Limit(MaxCreates, MaxJoins, MaxConns, 0, NumCodes) EXCEPT !.adds = MaxAdds])

NextChat ==
    \/ \E u \in Users : CreatePop(u)
    \/ \E t \in Running : CreateInsert(t)
    \/ \E t \in Running : CreateArm(t)
    \/ \E code \in Codes, u \in Users : JoinLookup(code, u)
    \/ \E t \in Running : JoinLock(t)
    \/ \E t \in Running : JoinArm(t)
    \/ \E tok \in tokens \cup {BadToken} : ConnectLookup(tok)
    \/ \E t \in Running : ConnectLock(t)
    \/ \E t \in Running : AddStart(t)
    \/ \E t \in Running : AddSend(t)
    \/ \E t \in Running : AddReply(t)
    \/ \E t \in Running : DisconnectLock(t)
    \/ \E t \in Running : DisconnectArm(t)

SpecChat == InitChat /\ [][NextChat]_vars

\* Sessions whose clients send frames that are not commands.
InitSession ==
    InitState([Limit(MaxCreates, MaxJoins, MaxConns, 0, NumCodes) EXCEPT !.frames = MaxFrames])

NextSession ==
    \/ \E u \in Users : CreatePop(u)
    \/ \E t \in Running : CreateInsert(t)
    \/ \E t \in Running : CreateArm(t)
    \/ \E code \in Codes, u \in Users : JoinLookup(code, u)
    \/ \E t \in Running : JoinLock(t)
    \/ \E t \in Running : JoinArm(t)
    \/ \E tok \in tokens \cup {BadToken} : ConnectLookup(tok)
    \/ \E t \in Running : ConnectLock(t)
    \/ \E t \in Running, f \in BadFrames : HandleMessage(t, f)
    \/ \E t \in Running : DisconnectLock(t)
    \/ \E t \in Running : DisconnectArm(t)

SpecSession == InitSession /\ [][NextSession]_vars

\* Create then join: the HTTP calls of a lobby within its first ten seconds,
\* before any timer elapses and before anyone connects.
InitCreateJoin == InitState(Limit(MaxCreates, MaxJoins + 1, 0, MaxTicks, NumCodes))

NextCreateJoin ==
    \/ \E u \in Users : CreatePop(u)
    \/ \E t \in Running : CreateInsert(t)
    \/ \E t \in Running : CreateArm(t)
    \/ \E code \in Codes, u \in Users : JoinLookup(code, u)
    \/ \E t \in Running : JoinLock(t)
    \/ \E t \in Running : JoinArm(t)
    \/ Tick

SpecCreateJoin == InitCreateJoin /\ [][NextCreateJoin]_vars

\* ----------------------------------------------------------------- startup
\* A server that serves no request: only eval and the pool are in use.
InitIdle(e, pool) ==
    /\ available_codes = pool
    /\ rooms = <<>>
    /\ room = <<>>
    /\ tasks = EmptyBag
    /\ outbox = <<>>
    /\ tokens = {}
    /\ now = 0
    /\ calls = [creates |-> 0, joins |-> 0, conns |-> 0, adds |-> 0, frames |-> 0]
    /\ limit = Limit(0, 0, 0, 0, 0)
    /\ reply = NoReply
    /\ destroyed = <<>>
    /\ last_ok = {}
    /\ superseded = {}
    /\ pd_run = <<>>
    /\ room_cancels = <<>>
    /\ rx_closed = {}
    /\ sync = NoSync
    /\ received = NoFrame
    /\ eval = e

\* Everything but eval and the pool stays as it is.
IdleUnchanged ==
    /\ reply' = NoReply
    /\ sync' = NoSync
    /\ received' = NoFrame
    /\ UNCHANGED <<rooms, room, tasks, outbox, tokens, now, calls, limit, destroyed,
                   last_ok, superseded, pd_run, room_cancels, rx_closed>>

\* Values ROOM_CODE_LENGTH is started with.
Envs == {EnvUnset, EnvText} \cup {EnvNumber(n) : n \in (-1 .. 11) \cup {U8Max, U8Max + 1}}

\* The process before State::new has run.
InitStartup ==
    \E env \in Envs :
        InitIdle([fn |-> "State::new", pc |-> "start", env |-> env,
                  code_length |-> 0, number_of_codes |-> u32(0)], <<>>)

\* state.rs State::new line 22 and generate_available_codes lines 33-37: the
\* length is read, a length above 9 panics, the number of codes is computed.
CountCodes ==
    /\ eval.fn = "State::new" /\ eval.pc = "start"
    /\ LET code_length == get_env_or_default(eval.env, DefaultCodeLength) IN
          eval' = IF code_length > MaxCodeLength
                  THEN [eval EXCEPT !.pc = "panicked", !.code_length = code_length]
                  ELSE [eval EXCEPT !.pc = "counted", !.code_length = code_length,
                                    !.number_of_codes = pow(Radix, code_length)]
    /\ UNCHANGED available_codes
    /\ IdleUnchanged

\* state.rs generate_available_codes lines 38-42 and State::new line 27: the
\* codes are formatted, shuffled and stored.
CollectCodes ==
    /\ eval.fn = "State::new" /\ eval.pc = "counted"
    /\ eval.code_length <= MaxWidth
    /\ available_codes' \in
          shuffle(generate_available_codes(eval.code_length, eval.number_of_codes), MaxSwaps)
    /\ eval' = [eval EXCEPT !.pc = "running"]
    /\ IdleUnchanged

NextStartup == CountCodes \/ CollectCodes

SpecStartup == InitStartup /\ [][NextStartup]_vars

\* Room::send and Room::send_except on their own: one Room whose players are
\* online or not, on connections whose receiver is alive or gone, and a few
\* fan-outs applied to it.
SendFrames == {Msg("PlayerJoined", "bob"), Msg("AddResult", "alice")}

\* The players' ws fields: None, or connections no two players share.
SendSeats(P) ==
    {w \in [P -> {NoConn} \cup (1 .. MaxConns)] :
        \A u, v \in P : u # v /\ w[u] # NoConn => w[u] # w[v]}

InitSend ==
    /\ available_codes \in Shuffles(NumCodes - 1)
    /\ rooms = ((NumCodes - 1) :> 1)
    /\ \E P \in SUBSET Users \ {{}} : \E leader \in P : \E w \in SendSeats(P) :
          room = <<[code |-> NumCodes - 1, leader |-> leader,
                    players |-> [u \in P |-> [PlayerNew(u, 0) EXCEPT !.ws = w[u]]],
                    cancel_cleanup |-> NoCancel]>>
    /\ tasks = EmptyBag
    /\ outbox = [c \in 1 .. MaxConns |-> <<>>]
    /\ tokens = {}
    /\ now = 0
    /\ calls = [creates |-> 0, joins |-> 0, conns |-> 0, adds |-> 0, frames |-> 0]
    /\ limit = [Limit(0, 0, 0, 0, NumCodes) EXCEPT !.adds = MaxAdds]
    /\ reply = NoReply
    /\ destroyed = <<0>>
    /\ last_ok = {}
    /\ superseded = {}
    /\ pd_run = <<>>
    /\ room_cancels = <<0>>
    /\ rx_closed \in SUBSET (1 .. MaxConns)
    /\ sync = NoSync
    /\ received = NoFrame
    /\ eval = NoEval

\* rooms.rs Room::send (lines 132-146) applied to the Room.
SendAll(m) ==
    /\ calls.adds < limit.adds
    /\ calls' = [calls EXCEPT !.adds = @ + 1]
    /\ outbox' = RoomSend(outbox, room[1], m)
    /\ reply' = Reply("send", m.type, 1, "", 0, 0, 0)
    /\ sync' = NoSync
    /\ received' = NoFrame
    /\ eval' = eval
    /\ UNCHANGED <<available_codes, rooms, room, tasks, tokens, now, limit, destroyed,
                   last_ok, superseded, pd_run, room_cancels, rx_closed>>

\* rooms.rs Room::send_except (lines 148-168) applied to the Room.
SendAllExcept(m, except) ==
    /\ calls.adds < limit.adds
    /\ calls' = [calls EXCEPT !.adds = @ + 1]
    /\ outbox' = RoomSendExcept(outbox, room[1], m, except)
    /\ reply' = Reply("send_except", m.type, 1, except, 0, 0, 0)
    /\ sync' = NoSync
    /\ received' = NoFrame
    /\ eval' = eval
    /\ UNCHANGED <<available_codes, rooms, room, tasks, tokens, now, limit, destroyed,
                   last_ok, superseded, pd_run, room_cancels, rx_closed>>

NextSend ==
    \/ \E m \in SendFrames : SendAll(m)
    \/ \E m \in SendFrames, except \in Users : SendAllExcept(m, except)

SpecSend == InitSend /\ [][NextSend]_vars

\* ------------------------------------------------------------ make_message
\* Values to_value can return: objects (with and without a key "ack", and the
\* empty one) and values that are not objects.
JsonValues ==
    {JsonObject(Msg("AddResult", "alice")),
     JsonObject(MapInsert(Msg("AddResult", "alice"), "ack", "a0")),
     JsonObject(<<>>),
     JsonOther("null"), JsonOther("[1]"), JsonOther("\"ack\"")}

\* ws.rs make_message applied to a value and an Option<String>.
MakeMessage(value, ack) ==
    /\ eval' = [fn |-> "make_message", value |-> value, ack |-> ack,
                result |-> make_message(value, ack)]
    /\ UNCHANGED <<available_codes, outbox>>
    /\ IdleUnchanged

\* make_message by itself and through the fan-outs of a Room.
NextMessage ==
    \/ \E value \in JsonValues, ack \in Acks \cup {NoAck} : MakeMessage(value, ack)
    \/ \E m \in SendFrames : SendAll(m)
    \/ \E m \in SendFrames, except \in Users : SendAllExcept(m, except)

SpecMessage == InitSend /\ [][NextMessage]_vars

\* ------------------------------------------------------------------ errors
\* warp::http::StatusCode, as errors.rs and filters.rs name them.
CREATED == 201
BAD_REQUEST == 400
FORBIDDEN == 403
NOT_FOUND == 404
METHOD_NOT_ALLOWED == 405
CONFLICT == 409
LENGTH_REQUIRED == 411
PAYLOAD_TOO_LARGE == 413
UNSUPPORTED_MEDIA_TYPE == 415
INTERNAL_SERVER_ERROR == 500
SERVICE_UNAVAILABLE == 503

\* The MuuzikaError kinds the sources construct or match on.
ErrorKinds ==
    {"Unknown", "RoomNotFound", "OutOfRoomCodes", "UsernameTaken",
     "InvalidAuthorizationHeader", "InvalidToken", "ExpiredToken", "PlayerNotInRoom",
     "ConnectedInAnotherDevice"}

\* errors.rs MuuzikaError::code: three arms and the wildcard.
MuuzikaError_code(kind) ==
    CASE kind = "RoomNotFound" -> NOT_FOUND
      [] kind = "OutOfRoomCodes" -> SERVICE_UNAVAILABLE
      [] kind = "UsernameTaken" -> CONFLICT
      [] OTHER -> INTERNAL_SERVER_ERROR

\* errors.rs ErrorResponse::new (code and error; the other fields carry text).
ErrorResponse(status, error) == [code |-> status, error |-> error]

\* errors.rs From<&MuuzikaError> for ErrorResponse: the status is code(), the
\* error is the serde tag of the variant.
ErrorResponseFrom(kind) == ErrorResponse(MuuzikaError_code(kind), kind)

\* A warp Rejection: a custom one carrying a MuuzikaError, or one of warp's own.
Custom(kind) == [custom |-> TRUE, is |-> kind]
Warp(name) == [custom |-> FALSE, is |-> name]
WarpRejections ==
    {"NotFound", "MethodNotAllowed", "InvalidHeader", "MissingHeader", "MissingCookie",
     "InvalidQuery", "BodyDeserializeError", "MissingConnectionUpgrade", "LengthRequired",
     "PayloadTooLarge", "UnsupportedMediaType", "CorsForbidden", "Other"}

\* errors.rs get_response_from_rejection.
get_response_from_rejection(err) ==
    IF err.custom THEN ErrorResponseFrom(err.is)
    ELSE CASE err.is = "NotFound" -> ErrorResponse(NOT_FOUND, "NotFound")
           [] err.is = "MethodNotAllowed" -> ErrorResponse(METHOD_NOT_ALLOWED, "MethodNotAllowed")
           [] err.is \in {"InvalidHeader", "MissingHeader", "MissingCookie", "InvalidQuery",
                          "BodyDeserializeError", "MissingConnectionUpgrade"} ->
                  ErrorResponse(BAD_REQUEST, err.is)
           [] err.is = "LengthRequired" -> ErrorResponse(LENGTH_REQUIRED, "LengthRequired")
           [] err.is = "PayloadTooLarge" -> ErrorResponse(PAYLOAD_TOO_LARGE, "PayloadTooLarge")
           [] err.is = "UnsupportedMediaType" ->
                  ErrorResponse(UNSUPPORTED_MEDIA_TYPE, "UnsupportedMediaType")
           [] err.is = "CorsForbidden" -> ErrorResponse(FORBIDDEN, "CorsForbidden")
           [] OTHER -> ErrorResponse(INTERNAL_SERVER_ERROR, "Unknown")

\* filters.rs handle_rejection: the response goes out with its own code.
handle_rejection(err) == get_response_from_rejection(err)

\* filters.rs create_room and join_room: Ok is answered 201; Err(e) becomes
\* warp::reject::custom(e) and is answered by handle_rejection.
HttpResponse(rp) ==
    IF rp.res = "Ok" THEN [code |-> CREATED, error |-> ""]
    ELSE handle_rejection(Custom(rp.res))

\* A filter rejects a request: handle_rejection answers.
HandleRejection(err) ==
    /\ eval' = [fn |-> "handle_rejection", err |-> err, response |-> handle_rejection(err)]
    /\ UNCHANGED <<available_codes, outbox>>
    /\ IdleUnchanged

\* The HTTP side: create_room and join_room requests, with more creates than
\* there are codes, and rejections of every kind.
NextHttp ==
    \/ \E u \in Users : CreatePop(u)
    \/ \E t \in Running : CreateInsert(t)
    \/ \E t \in Running : CreateArm(t)
    \/ \E code \in Codes, u \in Users : JoinLookup(code, u)
    \/ \E t \in Running : JoinLock(t)
    \/ \E t \in Running : JoinArm(t)
    \/ \E kind \in ErrorKinds : HandleRejection(Custom(kind))
    \/ \E name \in WarpRejections : HandleRejection(Warp(name))

SpecHttp == InitExhaust /\ [][NextHttp]_vars

\* ------------------------------------------------------------------ tokens
\* Secrets, and the claims tokens are made of.
Secrets == {"", jwt_secret, OtherSecret}
ClaimsInputs ==
    {Claims(iat, room_code, username) :
        iat \in 0 .. MaxTicks, room_code \in Codes, username \in Users \cup {""}}

\* Nothing is encoded yet: a secret and the three inputs are chosen.
InitToken ==
    \E secret \in Secrets, claims \in ClaimsInputs :
        InitIdle([fn |-> "encode_token", pc |-> "start", secret |-> secret,
                  input |-> claims], <<>>)

\* auth.rs encode_token applied to the inputs.
EncodeToken ==
    /\ eval.fn = "encode_token" /\ eval.pc = "start"
    /\ eval' = [fn |-> "encode_token", pc |-> "encoded", secret |-> eval.secret,
                input |-> eval.input,
                token |-> encode_token(eval.secret, eval.input.iat, eval.input.room_code,
                                       eval.input.username)]
    /\ UNCHANGED <<available_codes, outbox>>
    /\ IdleUnchanged

\* auth.rs decode_token applied to the token, with some secret.
DecodeToken(secret) ==
    /\ eval.fn = "encode_token" /\ eval.pc = "encoded"
    /\ eval' = [fn |-> "encode_token", pc |-> "decoded", secret |-> eval.secret,
                input |-> eval.input, token |-> eval.token, with |-> secret,
                decoded |-> decode_token(secret, eval.token)]
    /\ UNCHANGED <<available_codes, outbox>>
    /\ IdleUnchanged

NextToken == EncodeToken \/ \E secret \in Secrets : DecodeToken(secret)

SpecToken == InitToken /\ [][NextToken]_vars

\* ------------------------------------------------------------------ claims
RoomIds == DOMAIN room

\* Occurrences of a code in the pool.
InPool(code) == Cardinality({i \in DOMAIN available_codes : available_codes[i] = code})

\* Running operations that hold a code neither in the registry nor in the pool:
\* a create_room between its pop and its insert, a do_room_cleanup between its
\* remove and its push.
HeldBy(t, code) ==
    \/ t.op = "create_room" /\ t.pc = "insert" /\ t.code = code
    \/ t.op = "do_room_cleanup" /\ t.pc = "push" /\ room[t.r].code = code

BagSum(F(_), S) ==
    LET RECURSIVE sum(_)
        sum(T) == IF T = {} THEN 0
                  ELSE LET x == CHOOSE y \in T : TRUE IN F(x) + sum(T \ {x})
    IN sum(S)

InFlight(code) ==
    LET n(t) == IF HeldBy(t, code) THEN CopiesIn(t, tasks) ELSE 0
    IN BagSum(n, Running)

\* The codes generate_available_codes produced at startup.
Universe == 0 .. (limit.codes - 1)

\* C1: every code of the startup universe is in exactly one place: a key of the
\* registry, the pool (once), or held by one running create or destroy.
C1_CodeInExactlyOnePlace ==
    \A code \in Universe :
        (IF code \in DOMAIN rooms THEN 1 ELSE 0) + InPool(code) + InFlight(code) = 1

\* C2: do_room_cleanup removes and pushes the code of a Room at most once.
C2_RoomDestroyedAtMostOnce == \A r \in RoomIds : destroyed[r] <= 1

\* C3: whenever a Room's lock is free, none of its players has both a connection
\* and a stored cleanup canceller.
C3_OnlineHasNoCanceller ==
    \A r \in RoomIds : CanWrite(r) =>
        \A u \in DOMAIN room[r].players :
            ~(room[r].players[u].ws # NoConn
              /\ room[r].players[u].cancel_cleanup # NoCancel)

\* C4: whenever a Room's lock is free, a Room that stores a cleanup canceller has
\* no players.
C4_CancellerMeansEmpty ==
    \A r \in RoomIds : CanWrite(r) =>
        (room[r].cancel_cleanup # NoCancel => DOMAIN room[r].players = {})

EndsWith(q, tail) ==
    Len(q) >= Len(tail) /\ SubSeq(q, Len(q) - Len(tail) + 1, Len(q)) = tail

Seats == {<<r, u>> \in RoomIds \X Users : u \in DOMAIN room[r].players}

Installed == {room[s[1]].players[s[2]].ws : s \in Seats} \ {NoConn}

StaleDisconnect(rp, rms) ==
    /\ rp.op = "disconnect_player"
    /\ HasPlayer(rms[rp.r], rp.u)
    /\ rms[rp.r].players[rp.u].ws \notin {NoConn, rp.c}

\* C6: disconnect_player for a handle other than the installed one changes
\* nothing: the Room and every queue stay as they were and no cleanup is armed.
C6_StaleDisconnectChangesNothing ==
    [][StaleDisconnect(reply', room)
          => /\ room' = room
             /\ outbox' = outbox
             /\ \A t \in BagToSet(tasks') : ~(t.op = "session" /\ t.c = reply'.c)]_vars

C6_Witness == StaleDisconnect(reply, room) /\ reply.c \in superseded

\* The step just taken was connect_player reaching a player whose created_at is
\* not the token's iat.
SeatMismatch(rp, rms) ==
    /\ rp.op = "connect_player"
    /\ rp.r # 0
    /\ HasPlayer(rms[rp.r], rp.u)
    /\ rms[rp.r].players[rp.u].created_at # rp.iat

\* C8: connect_player with a token whose iat is not the created_at of the player
\* holding that username returns UsernameTaken and installs nothing.
C8_IatMismatchIsUsernameTaken ==
    [][SeatMismatch(reply', room)
          => /\ reply'.res = "UsernameTaken"
             /\ room' = room]_vars

\* A token of an evicted seat was presented after the seat was re-created.
C8_Witness ==
    /\ SeatMismatch(reply, room)
    /\ reply.res = "UsernameTaken"
    /\ encode_token(jwt_secret, reply.iat, reply.code, reply.u) \in tokens

\* No Room was destroyed: every Room ever created is still the registry's entry
\* for its code and no code was pushed back.
NoRoomDestroyed ==
    \A r \in RoomIds :
        /\ destroyed[r] = 0
        /\ room[r].code \in DOMAIN rooms
        /\ rooms[room[r].code] = r

\* The codes handed out so far: one per Room created, one per create_room that
\* has popped and not yet inserted.
CodesHandedOut ==
    LET n(t) == IF t.op = "create_room" /\ t.pc = "insert" THEN CopiesIn(t, tasks) ELSE 0
    IN Len(room) + BagSum(n, Running)

CodesInUse ==
    {room[r].code : r \in RoomIds}
        \cup {t.code : t \in {x \in Running : x.op = "create_room" /\ x.pc = "insert"}}

\* The step is the first step of a create_room call.
CreateCalled == calls'.creates = calls.creates + 1

\* C10: while no Room was destroyed, each of the first N create_room calls (N the
\* size of the code universe) pops a code and the codes handed out are pairwise
\* distinct; a create_room called on an empty pool returns OutOfRoomCodes and
\* changes neither the registry nor the pool, nor starts anything.
C10_CreatesUntilExhausted ==
    [][/\ (CreateCalled /\ NoRoomDestroyed /\ calls.creates < limit.codes)
            => /\ reply'.res # "OutOfRoomCodes"
               /\ Len(available_codes') = Len(available_codes) - 1
               /\ CodesHandedOut' = CodesHandedOut + 1
       /\ NoRoomDestroyed' => Cardinality(CodesInUse') = CodesHandedOut'
       /\ (CreateCalled /\ available_codes = <<>>)
            => /\ reply'.op = "create_room"
               /\ reply'.res = "OutOfRoomCodes"
               /\ rooms' = rooms
               /\ available_codes' = available_codes
               /\ room' = room
               /\ tasks' = tasks]_vars

\* N creates have succeeded with N different codes, none of the Rooms was
\* destroyed, and one more create was answered OutOfRoomCodes.
C10_Witness ==
    /\ reply.op = "create_room" /\ reply.res = "OutOfRoomCodes"
    /\ NoRoomDestroyed
    /\ Len(room) = limit.codes
    /\ Cardinality({room[r].code : r \in RoomIds}) = limit.codes
    /\ DOMAIN rooms = Universe
    /\ available_codes = <<>>
    /\ \A t \in Running : t.op # "create_room"

\* The seat lost its connection to a disconnect_player and no player-cleanup
\* timer of the seat has timed out since.
AwaitingReconnect(r, u) ==
    /\ r \in RoomIds
    /\ HasPlayer(room[r], u)
    /\ room[r].players[u].ws = NoConn
    /\ pd_run[r][u] >= 1
    /\ room[r].players[u].cancel_cleanup # "Stale"
    /\ \A t \in Running : ~(t.op = "do_player_cleanup" /\ t.r = r /\ t.u = u)

\* C7: when connect_player succeeds for a seat that disconnected and whose timer
\* has not timed out, the player is still seated and the Room has fanned out
\* PlayerDisconnected(username) exactly once since the seat was last connected,
\* so an observer sees one PlayerDisconnected and then one PlayerConnected.
C7_ReconnectSeesOneDisconnect ==
    [][(/\ reply'.op = "connect_player"
        /\ reply'.res = "Ok"
        /\ AwaitingReconnect(reply'.r, reply'.u))
          => /\ HasPlayer(room'[reply'.r], reply'.u)
             /\ room'[reply'.r].players[reply'.u].ws = reply'.c
             /\ pd_run'[reply'.r][reply'.u] = 1]_vars

\* C9: a connect_player that returns an error leaves the Room as it was (the
\* player's connection and canceller included) and sends nothing to any
\* connection other than the one that asked.
C9_FailedConnectChangesNothing ==
    [][(reply'.op = "connect_player" /\ reply'.res # "Ok")
          => /\ room' = room
             /\ \A c \in DOMAIN outbox : c # reply'.c => outbox'[c] = outbox[c]]_vars

\* Occurrences of a code in a pool.
PoolCount(pool, code) == Cardinality({i \in DOMAIN pool : pool[i] = code})

\* The step is a create_room returning the error of a failed encode_token.
CreateFailed(rp) == rp.op = "create_room" /\ rp.res = "Unknown"

\* The step is a create_room popping a code.
CreatePopped == CreateCalled /\ reply'.res # "OutOfRoomCodes"

\* C11: a create_room that fails after its pop pushes the popped code back
\* (pushing what pop took gives the pool pop started from) and leaves the
\* registry and every Room as they were; the code is then held by the pool and
\* no longer by the call.
C11_FailedCreatePushesCodeBack ==
    [][/\ CreatePopped
            => \E t \in BagToSet(tasks') :
                  /\ CopiesIn(t, tasks') = CopiesIn(t, tasks) + 1
                  /\ t.op = "create_room"
                  /\ push_room_code(available_codes', t.code) = available_codes
       /\ CreateFailed(reply')
            => /\ rooms' = rooms
               /\ room' = room
               /\ PoolCount(available_codes', reply'.code)
                     = PoolCount(available_codes, reply'.code) + 1
               /\ available_codes'[Len(available_codes')] = reply'.code
               /\ \E t \in Running :
                     /\ t.op = "create_room" /\ t.pc = "insert" /\ t.code = reply'.code
                     /\ tasks' = End(t)
               /\ {available_codes'[i] : i \in DOMAIN available_codes'}
                     = {available_codes[i] : i \in DOMAIN available_codes}
                          \cup {reply'.code}]_vars

\* A create_room failed in encode_token and its code is back in the pool, with
\* no Room registered under it.
C11_Witness ==
    /\ CreateFailed(reply)
    /\ InPool(reply.code) = 1
    /\ reply.code \notin DOMAIN rooms
    /\ room = <<>>

\* The step is join_room t taking the Room's lock.
JoinLocks(t) ==
    /\ t.op = "join_room" /\ t.pc = "lock"
    /\ CopiesIn(t, tasks') = CopiesIn(t, tasks) - 1

\* C12: join_room for a username the Room already seats returns UsernameTaken
\* and ends there: the Room (the seat's created_at, connection and canceller,
\* the Room's canceller) and every queue stay as they were and nothing is left
\* running that would arm a timer.
C12_TakenUsernameChangesNothing ==
    [][\A t \in Running :
          (JoinLocks(t) /\ HasPlayer(room[t.r], t.u))
              => /\ reply'.op = "join_room"
                 /\ reply'.res = "UsernameTaken"
                 /\ room' = room
                 /\ outbox' = outbox
                 /\ tokens' = tokens
                 /\ tasks' = End(t)]_vars

\* A join_room was refused for the username of a seat that is connected.
C12_Witness ==
    /\ reply.op = "join_room" /\ reply.res = "UsernameTaken"
    /\ HasPlayer(room[reply.r], reply.u)
    /\ room[reply.r].players[reply.u].ws # NoConn
    /\ room[reply.r].players[reply.u].cancel_cleanup = NoCancel

\* Player u of Room r is seated without a connection / with one / not seated.
Offline(r, u) ==
    r \in RoomIds /\ HasPlayer(room[r], u) /\ room[r].players[u].ws = NoConn
Connected(r, u) ==
    r \in RoomIds /\ HasPlayer(room[r], u) /\ room[r].players[u].ws # NoConn
Unseated(r, u) == r \in RoomIds /\ ~HasPlayer(room[r], u)

\* The queues after PlayerLeft(u) went to every connection in conns.
WithPlayerLeft(ob, conns, u) ==
    [c \in DOMAIN ob |-> IF c \in conns THEN Append(ob[c], Msg("PlayerLeft", u)) ELSE ob[c]]

\* The step is connect_player taking the lock of its Room for session t.
ConnectLocks(t) ==
    /\ t.op = "session" /\ t.pc = "lock"
    /\ CopiesIn(t, tasks') = CopiesIn(t, tasks) - 1

EmptyRoom(r) == r \in RoomIds /\ DOMAIN room[r].players = {}
SeatedRoom(r) == r \in RoomIds /\ DOMAIN room[r].players # {}
DestroyedRoom(r) ==
    /\ r \in RoomIds
    /\ destroyed[r] >= 1
    /\ ~(room[r].code \in DOMAIN rooms /\ rooms[room[r].code] = r)

\* No connection is in its read loop.
NoOpenSession == \A t \in Running : ~(t.op = "session" /\ t.pc = "open")

\* Nothing is registered, nothing is running and the pool holds every code.
Drained ==
    /\ rooms = <<>>
    /\ tasks = EmptyBag
    /\ \A code \in Universe : InPool(code) >= 1

PlayerCleanupLocks(t) ==
    /\ t.op = "do_player_cleanup" /\ t.pc = "lock"
    /\ CopiesIn(t, tasks') = CopiesIn(t, tasks) - 1

\* The step appends PlayerLeft(u) to some queue.
EmitsPlayerLeft(u) ==
    \E c \in DOMAIN outbox :
        /\ Len(outbox'[c]) > Len(outbox[c])
        /\ outbox'[c][Len(outbox'[c])] = Msg("PlayerLeft", u)

\* C15: a player leaves a Room only in a do_player_cleanup step for that
\* player, taken while the player has no connection; a do_player_cleanup that
\* finds its player gone or connected changes nothing and ends; PlayerLeft(u) is
\* sent only in a step that removes u.
C15_TimerRemovesOnlyOffline ==
    [][/\ \A r \in RoomIds, u \in Users :
             (HasPlayer(room[r], u) /\ ~HasPlayer(room'[r], u))
                => /\ room[r].players[u].ws = NoConn
                   /\ \E t \in Running : PlayerCleanupLocks(t) /\ t.r = r /\ t.u = u
       /\ \A t \in Running :
             (PlayerCleanupLocks(t)
                /\ (~HasPlayer(room[t.r], t.u) \/ room[t.r].players[t.u].ws # NoConn))
                => /\ room' = room
                   /\ outbox' = outbox
                   /\ rooms' = rooms
                   /\ tasks' = End(t)
       /\ \A u \in Users :
             EmitsPlayerLeft(u)
                => \E r \in RoomIds :
                      /\ HasPlayer(room[r], u) /\ ~HasPlayer(room'[r], u)
                      /\ room[r].players[u].ws = NoConn]_vars

\* A player-cleanup timer elapsed for a connected player, its do_player_cleanup
\* has run, and the player is still seated and connected.
C15_Witness ==
    \E s \in Seats :
        /\ room[s[1]].players[s[2]].ws # NoConn
        /\ room[s[1]].players[s[2]].cancel_cleanup = "Stale"
        /\ \A t \in Running : ~(t.op = "do_player_cleanup" /\ t.r = s[1] /\ t.u = s[2])

\* The step is do_room_cleanup t looking at its Room's players.
RoomCleanupLocks(t) ==
    /\ t.op = "do_room_cleanup" /\ t.pc = "lock"
    /\ CopiesIn(t, tasks') = CopiesIn(t, tasks) - 1

\* C16: an entry leaves the registry only in a do_room_cleanup step and only
\* while the Room the entry maps to has no players; a do_room_cleanup that finds
\* its Room seated ends with registry and pool unchanged.
C16_OnlyEmptyRoomsLeaveRegistry ==
    [][/\ \A code \in DOMAIN rooms :
             code \notin DOMAIN rooms'
                => /\ DOMAIN room[rooms[code]].players = {}
                   /\ \E t \in Running : t.op = "do_room_cleanup" /\ t.pc = "remove"
       /\ \A t \in Running :
             (RoomCleanupLocks(t) /\ DOMAIN room[t.r].players # {})
                => /\ rooms' = rooms
                   /\ available_codes' = available_codes
                   /\ tasks' = End(t)]_vars

\* do_room_cleanup tasks of Room r among the tasks of a bag.
CleanupsOf(bag, r) ==
    LET n(t) == IF t.op = "do_room_cleanup" /\ t.r = r THEN CopiesIn(t, bag) ELSE 0
    IN BagSum(n, BagToSet(bag))

\* C17: a join_room that seats a player in a Room whose room timer is armed
\* clears the Room's canceller and starts no do_room_cleanup, and registry and
\* pool stay as they were; a do_room_cleanup starts only from an armed canceller,
\* and a canceller becomes armed only in schedule_room_cleanup: the timer the
\* join cancelled never runs do_room_cleanup.
C17_JoinCancelsRoomTimer ==
    [][/\ \A t \in Running :
             (JoinLocks(t) /\ ~HasPlayer(room[t.r], t.u)
                /\ room[t.r].cancel_cleanup = "Armed")
                => /\ room'[t.r].cancel_cleanup = NoCancel
                   /\ HasPlayer(room'[t.r], t.u)
                   /\ CleanupsOf(tasks', t.r) = CleanupsOf(tasks, t.r)
                   /\ rooms' = rooms
                   /\ available_codes' = available_codes
       /\ \A r \in RoomIds :
             CleanupsOf(tasks', r) > CleanupsOf(tasks, r)
                => room[r].cancel_cleanup = "Armed" /\ room'[r].cancel_cleanup = "Stale"
       /\ \A r \in RoomIds :
             (room[r].cancel_cleanup # "Armed" /\ room'[r].cancel_cleanup = "Armed")
                => \E t \in Running :
                      /\ t.op = "do_player_cleanup" /\ t.pc = "schedule_room" /\ t.r = r
                      /\ tasks' = End(t)]_vars

\* join_room cancelled the armed timer of a Room; the Room is seated,
\* registered, was never destroyed and no do_room_cleanup is running for it.
C17_Witness ==
    \E r \in RoomIds :
        /\ room_cancels[r] >= 1
        /\ room[r].cancel_cleanup = NoCancel
        /\ DOMAIN room[r].players # {}
        /\ room[r].code \in DOMAIN rooms /\ rooms[room[r].code] = r
        /\ destroyed[r] = 0
        /\ CleanupsOf(tasks, r) = 0
        /\ \A t \in Running : t.r # r

\* Frames a Room fans out (the others answer one connection).
FanOutTypes ==
    {"PlayerJoined", "PlayerLeft", "PlayerConnected", "PlayerDisconnected", "AddResult"}

\* Positions of frame m in queue q.
Positions(q, m) == {i \in DOMAIN q : q[i] = m}

FanOutsIn(q) == {q[i] : i \in {j \in DOMAIN q : q[j].type \in FanOutTypes}}

\* C18: two fan-out frames that two connections both received (each once) are
\* in the same order in both queues.
C18_SameOrderForAllRecipients ==
    \A c1, c2 \in DOMAIN outbox :
        \A m1, m2 \in FanOutsIn(outbox[c1]) \cap FanOutsIn(outbox[c2]) :
            (/\ m1 # m2
             /\ \A c \in {c1, c2}, m \in {m1, m2} : Cardinality(Positions(outbox[c], m)) = 1)
                => LET pos(c, m) == CHOOSE i \in Positions(outbox[c], m) : TRUE
                   IN (pos(c1, m1) < pos(c1, m2)) <=> (pos(c2, m1) < pos(c2, m2))

\* The connection of player u in Room rm, NoConn if u is offline or not seated.
WsOf(rm, u) == IF HasPlayer(rm, u) THEN rm.players[u].ws ELSE NoConn

\* The step is Room::send of frame m.
SendsAll(m) == calls'.adds = calls.adds + 1 /\ reply' = Reply("send", m.type, 1, "", 0, 0, 0)

\* The step is Room::send_except of frame m, skipping `except`.
SendsAllExcept(m, except) ==
    calls'.adds = calls.adds + 1 /\ reply' = Reply("send_except", m.type, 1, except, 0, 0, 0)

\* Queue c grew by exactly the frame m / did not change.
GotOne(c, m) == outbox'[c] = Append(outbox[c], m)
GotNone(c) == outbox'[c] = outbox[c]

\* C19: Room::send puts exactly one copy of the frame on the queue of every
\* player whose ws is Some and nothing on any other queue; send_except does the
\* same but skips the named player; a recipient whose enqueue fails (its
\* receiver is gone) gets nothing, no other connection is closed and every
\* other online recipient still gets its copy.
C19_FanOutReachesEveryOnlinePlayer ==
    [][/\ \A m \in SendFrames : SendsAll(m) =>
            \A c \in DOMAIN outbox :
                IF c \in {WsOf(room[1], u) : u \in Users} \ ({NoConn} \cup rx_closed)
                THEN GotOne(c, m) ELSE GotNone(c)
       /\ \A m \in SendFrames, except \in Users : SendsAllExcept(m, except) =>
            \A c \in DOMAIN outbox :
                IF c \in {WsOf(room[1], u) : u \in Users \ {except}} \ ({NoConn} \cup rx_closed)
                THEN GotOne(c, m) ELSE GotNone(c)]_vars

\* Room::send ran on a Room whose first player's enqueue fails, whose second
\* player is online with a live receiver and got the frame.
C19_Witness ==
    /\ reply.op = "send"
    /\ calls.adds = 1
    /\ \E u, v \in Users :
          /\ u = PlayersOrder[1] /\ v = PlayersOrder[2]
          /\ WsOf(room[1], u) \in rx_closed
          /\ WsOf(room[1], v) \in DOMAIN outbox \ rx_closed
          /\ outbox[WsOf(room[1], u)] = <<>>
          /\ Len(outbox[WsOf(room[1], v)]) = 1
          /\ outbox[WsOf(room[1], v)][1].type = reply.res

\* The step is a connect_player of session t that returns Ok.
ConnectSucceeds(t) ==
    /\ ConnectLocks(t)
    /\ reply' = Reply("connect_player", "Ok", t.r, t.u, t.c, t.code, t.iat)

\* The connections of the players of Room r other than u.
OthersOnline(r, u) == {WsOf(room[r], v) : v \in Users \ {u}} \ {NoConn}

\* C20: a connect_player that succeeds for username u puts PlayerConnected(u)
\* on the queue of every other player online at that moment; u's new
\* connection gets its Sync only, the connection it replaces gets the error and
\* the close frame only, and no other step puts a PlayerConnected on a queue.
C20_PlayerConnectedGoesToTheOthers ==
    [][/\ \A t \in Running : ConnectSucceeds(t) =>
            LET old == WsOf(room[t.r], t.u) IN
            \A c \in DOMAIN outbox :
                outbox'[c] =
                    IF c \in OthersOnline(t.r, t.u)
                    THEN Append(outbox[c], Msg("PlayerConnected", t.u))
                    ELSE IF c = t.c THEN Append(outbox[c], Msg("Sync", t.u))
                    ELSE IF c = old
                    THEN outbox[c] \o <<ErrorFrame("ConnectedInAnotherDevice"), CloseFrame>>
                    ELSE outbox[c]
       /\ \A c \in DOMAIN outbox, u \in Users :
            Cardinality(Positions(outbox'[c], Msg("PlayerConnected", u)))
                > Cardinality(Positions(outbox[c], Msg("PlayerConnected", u)))
            => \E t \in Running :
                  /\ ConnectSucceeds(t) /\ t.u = u
                  /\ c \in OthersOnline(t.r, u)
                  /\ c \notin {t.c, WsOf(room[t.r], u)}]_vars

\* A connect_player just succeeded while another player was online, and that
\* player's queue ends with the PlayerConnected frame.
C20_Witness ==
    /\ reply.op = "connect_player" /\ reply.res = "Ok"
    /\ \E v \in Users \ {reply.u} :
          /\ WsOf(room[reply.r], v) \in DOMAIN outbox
          /\ LET q == outbox[WsOf(room[reply.r], v)] IN
                Len(q) > 0 /\ q[Len(q)] = Msg("PlayerConnected", reply.u)
    /\ \A i \in DOMAIN outbox[reply.c] : outbox[reply.c][i].type # "PlayerConnected"

\* Entries of a snapshot's players list that name u.
EntriesOf(dto, u) == {i \in DOMAIN dto.room.players : dto.room.players[i].username = u}

\* C21: the snapshot a successful connect_player returns names the token's
\* username as you, carries the Room's code and leader, and lists every player
\* the Room holds at that moment exactly once, is_online telling whether the
\* player has a connection; the connecting user's own entry is online.
C21_SyncDescribesTheRoom ==
    [][\A t \in Running : ConnectSucceeds(t) =>
          LET rm == room'[t.r] IN
          /\ sync'.you = t.u
          /\ sync'.room.code = rm.code /\ rm.code = t.code
          /\ sync'.room.leader = rm.leader
          /\ Len(sync'.room.players) = Cardinality(DOMAIN rm.players)
          /\ \A u \in DOMAIN rm.players :
                /\ Cardinality(EntriesOf(sync', u)) = 1
                /\ \A i \in EntriesOf(sync', u) :
                      /\ sync'.room.players[i].is_online = (rm.players[u].ws # NoConn)
                      /\ sync'.room.players[i].score = rm.players[u].score
          /\ \A i \in EntriesOf(sync', t.u) : sync'.room.players[i].is_online]_vars

\* A connect_player just returned a snapshot of two players, one of them
\* offline.
C21_Witness ==
    /\ reply.op = "connect_player" /\ reply.res = "Ok"
    /\ sync.you = reply.u
    /\ Len(sync.room.players) = 2
    /\ \E i, j \in DOMAIN sync.room.players :
          /\ sync.room.players[i].username = reply.u /\ sync.room.players[i].is_online
          /\ sync.room.players[j].username # reply.u /\ ~sync.room.players[j].is_online

\* The step is a connect_player that fails for the new connection reply'.c.
ConnectFails ==
    /\ reply'.op = "connect_player" /\ reply'.res # "Ok"
    /\ reply' # reply

\* PlayerDisconnected frames in queue q.
DisconnectedIn(q) == Cardinality({i \in DOMAIN q : q[i].type = "PlayerDisconnected"})

\* Cancellers (of players and of Rooms) whose timer is pending.
ArmedCancellers(rms) ==
    {x \in (DOMAIN rms) \X Users :
        HasPlayer(rms[x[1]], x[2]) /\ rms[x[1]].players[x[2]].cancel_cleanup = "Armed"}
    \cup {<<r, "">> : r \in {q \in DOMAIN rms : rms[q].cancel_cleanup = "Armed"}}

\* Connections whose session ended with a failed connect_player: their first
\* frame is the error.
FailedConns ==
    {c \in DOMAIN outbox : outbox[c] # <<>> /\ outbox[c][1].type = "Error"}

\* C22: a connect_player that fails puts exactly the error frame and then a
\* close frame on the new connection and ends the session: no task of that
\* connection remains (it neither reads frames nor calls disconnect_player),
\* the step emits no PlayerDisconnected and arms no cleanup timer, and no task
\* ever runs for a connection whose session failed.
C22_FailedConnectEndsSession ==
    [][/\ ConnectFails =>
            /\ outbox'[reply'.c] = <<ErrorFrame(reply'.res), CloseFrame>>
            /\ \A t \in BagToSet(tasks') : t.c # reply'.c
            /\ \A c \in DOMAIN outbox : DisconnectedIn(outbox'[c]) = DisconnectedIn(outbox[c])
            /\ ArmedCancellers(room') \subseteq ArmedCancellers(room)
       /\ \A c \in FailedConns' : \A t \in BagToSet(tasks') : t.c # c]_vars

\* A connect_player failed under the Room's lock (a token older than the seat,
\* or a seat that is gone) while another connection is installed in the Room.
C22_Witness ==
    /\ reply.op = "connect_player" /\ reply.res \in {"UsernameTaken", "PlayerNotInRoom"}
    /\ outbox[reply.c] = <<ErrorFrame(reply.res), CloseFrame>>
    /\ \A t \in Running : t.c # reply.c

\* The step is handle_message of session t for frame f.
Handles(t, f) ==
    /\ received' = f
    /\ eval' = eval
    /\ reply' = Reply("handle_message", "", t.r, t.u, t.c, t.code, t.iat)

\* Positions of a session between a successful connect_player and the end of
\* its read loop.
ReadingPcs == {"open"} \cup AddPcs

\* Connection c has a session in its read loop.
Reading(tks, c) == \E t \in BagToSet(tks) : t.op = "session" /\ t.c = c /\ t.pc \in ReadingPcs

\* C23: in the read loop a text frame that is not JSON gets one Error reply
\* without ack, a JSON text that is not a command gets one Error reply carrying
\* the frame's ack if it has one, a frame that is not text gets nothing; no
\* other connection gets a frame, the Room is unchanged (the connection stays
\* installed) and the session keeps reading.  disconnect_player runs only for a
\* session that was reading and ends its reading, and a session that stopped
\* reading never reads again, so it runs once per session.
C23_BadFramesAreAnsweredAndLoopContinues ==
    [][/\ \A t \in Running : \A f \in BadFrames : Handles(t, f) =>
            /\ IF f.kind # "Text" THEN outbox'[t.c] = outbox[t.c]
               ELSE LET q == outbox'[t.c] IN
                    /\ Len(q) = Len(outbox[t.c]) + 1
                    /\ SubSeq(q, 1, Len(outbox[t.c])) = outbox[t.c]
                    /\ q[Len(q)].type = "Error"
                    /\ IF f.json /\ f.ack # NoAck
                       THEN "ack" \in DOMAIN q[Len(q)] /\ q[Len(q)].ack = f.ack.s
                       ELSE "ack" \notin DOMAIN q[Len(q)]
            /\ \A c \in DOMAIN outbox : c # t.c => outbox'[c] = outbox[c]
            /\ room' = room
            /\ tasks' = tasks /\ t.pc = "open"
       /\ (reply'.op = "disconnect_player" /\ reply' # reply) =>
            /\ \E t \in Running : t.op = "session" /\ t.pc = "open" /\ t.c = reply'.c
            /\ ~Reading(tasks', reply'.c)
       /\ \A c \in DOMAIN outbox : ~Reading(tasks, c) /\ Reading(tasks', c) =>
            \E t \in Running : ConnectSucceeds(t) /\ t.c = c /\ t.pc = "lock"]_vars

\* A session just answered a JSON text that is not a command and carries an
\* ack: the error with that ack is the last frame of its queue, the connection
\* is still the player's and the session is still reading.
C23_Witness ==
    /\ reply.op = "handle_message"
    /\ received.kind = "Text" /\ received.json /\ received.ack \in Acks
    /\ LET q == outbox[reply.c] IN
          /\ Len(q) > 1
          /\ q[Len(q)].type = "Error"
          /\ "ack" \in DOMAIN q[Len(q)]
    /\ room[reply.r].players[reply.u].ws = reply.c
    /\ Reading(tasks, reply.c)

\* The canonical order: Registry, then Room, then Code Pool.
Rank(lock) == IF lock.kind = "Registry" THEN 1 ELSE IF lock.kind = "Room" THEN 2 ELSE 3

\* Every task awaits only locks that come after the ones it holds.
TakenInCanonicalOrder ==
    \A t \in Running : \A h \in HeldLocks(t), w \in WantedLocks(t) : Rank(h) < Rank(w)

\* No task awaits a Room while it holds the Code Pool.
NoRoomAwaitedUnderCodePool ==
    \A t \in Running : CodePool \in HeldLocks(t) => \A w \in WantedLocks(t) : w.kind # "Room"

\* Task t awaits a lock that another task (or another copy of it) holds.
WaitsFor(t, t2) ==
    /\ WantedLocks(t) \cap HeldLocks(t2) # {}
    /\ t # t2 \/ CopiesIn(t, tasks) > 1

\* No set of tasks in which each awaits a lock held by one of the set.
NoWaitCycle ==
    \A S \in SUBSET Running : S # {} => \E t \in S : \A t2 \in S : ~WaitsFor(t, t2)

\* C24: locks are taken in the order Registry, Room, Code Pool; no task awaits
\* a Room lock while it holds the Code Pool; no tasks wait for each other's
\* locks in a cycle.
C24_LocksInCanonicalOrder ==
    /\ TakenInCanonicalOrder
    /\ NoRoomAwaitedUnderCodePool
    /\ NoWaitCycle

\* The step is create_room building its Room, for task t.
CreateInserts(t) ==
    /\ t.op = "create_room" /\ t.pc = "insert"
    /\ Len(room') = Len(room) + 1
    /\ CopiesIn(t, tasks') = CopiesIn(t, tasks) - 1

\* C25: create_room makes the creator the Room's leader (and a player of it),
\* and no step changes the leader of a Room afterwards, whoever joins,
\* connects, disconnects or is removed; the leader may then name a user who
\* is no longer a player.
C25_LeaderIsNeverReassigned ==
    [][/\ \A r \in DOMAIN room : r \in DOMAIN room' /\ room'[r].leader = room[r].leader
       /\ Len(room') # Len(room) =>
            \E t \in Running :
                /\ CreateInserts(t)
                /\ room'[Len(room')].leader = t.u
                /\ DOMAIN room'[Len(room')].players = {t.u}]_vars

\* A Room whose creator was removed by the player cleanup while another player
\* holds a seat: the leader is not one of the players.
C25_Witness ==
    \E r \in DOMAIN room :
        /\ DOMAIN room[r].players # {}
        /\ room[r].leader \notin DOMAIN room[r].players
        /\ \E c \in DOMAIN outbox : \E i \in DOMAIN outbox[c] :
              outbox[c][i] = Msg("PlayerLeft", room[r].leader)

\* The step is a join_room returning its token.
JoinReturns == reply'.op = "join_room" /\ reply'.res = "Ok" /\ reply' # reply

\* C26: when join_room(C, bob) returns its token after create_room(alice)
\* returned code C, the registry maps C (and no other code) to one Room whose
\* players are exactly alice and bob and whose leader is alice; both are
\* offline with their cleanup timer armed; the two tokens issued for C carry
\* C, the username and the created_at of that username's player.
C26_CreateThenJoin ==
    [][JoinReturns =>
         \A tok \in tokens :
            (tok.payload.v.room_code = reply'.code /\ tok.payload.v.username # reply'.u) =>
                LET C == reply'.code
                    alice == tok.payload.v.username
                    bob == reply'.u
                IN /\ C \in DOMAIN rooms' /\ rooms'[C] = reply'.r
                   /\ \A c2 \in DOMAIN rooms' : rooms'[c2] = rooms'[C] => c2 = C
                   /\ LET rm == room'[rooms'[C]] IN
                        /\ rm.code = C
                        /\ DOMAIN rm.players = {alice, bob}
                        /\ rm.leader = alice
                        /\ \A u \in {alice, bob} :
                              /\ rm.players[u].ws = NoConn
                              /\ rm.players[u].cancel_cleanup = "Armed"
                        /\ tok = encode_token(jwt_secret, rm.players[alice].created_at, C, alice)
                        /\ {t \in tokens' : t.payload.v.room_code = C} =
                              {tok, encode_token(jwt_secret, rm.players[bob].created_at, C, bob)}
                        /\ reply'.iat = rm.players[bob].created_at]_vars

\* create_room(alice) returned, the clock moved on, join_room(C, bob) returned:
\* two tokens of one Room with different iat.
C26_Witness ==
    /\ reply.op = "join_room" /\ reply.res = "Ok"
    /\ Cardinality(tokens) = 2
    /\ \E a, b \in tokens :
          /\ a = encode_token(jwt_secret, room[reply.r].players["alice"].created_at,
                              reply.code, "alice")
          /\ b = encode_token(jwt_secret, reply.iat, reply.code, "bob")
          /\ reply.u = "bob"
          /\ decode_token(jwt_secret, a).claims.iat < decode_token(jwt_secret, b).claims.iat
    /\ room[reply.r].leader = "alice"
    /\ tasks = EmptyBag

\* The decimal strings of width w.
DecimalStrings(w) == [1 .. w -> 0 .. (Radix - 1)]

\* The pool of a started server is every decimal string of the configured
\* width, each once.
PoolIsEveryCodeOnce ==
    (eval.fn = "State::new" /\ eval.pc = "running") =>
        /\ Len(available_codes) = Radix ^ eval.code_length
        /\ {available_codes[i] : i \in DOMAIN available_codes} = DecimalStrings(eval.code_length)

\* A length that startup accepted is between 1 and 9.
AcceptedLengthInRange ==
    (eval.fn = "State::new" /\ eval.pc \in {"counted", "running"}) =>
        eval.code_length >= 1 /\ eval.code_length <= MaxCodeLength

\* The number of codes of an accepted length is 10^W, not a wrapped value.
CountDoesNotOverflow ==
    (eval.fn = "State::new" /\ eval.pc \in {"counted", "running"}) =>
        eval.number_of_codes = u32(Radix ^ eval.code_length)

\* C27: at startup the pool holds exactly the 10^W pairwise distinct decimal
\* strings of width W, W being ROOM_CODE_LENGTH; startup accepts W only when
\* 1 <= W <= 9, and 10^W is computed without overflow of the 32-bit counter.
C27_PoolIsEveryCodeOfAcceptedWidth ==
    PoolIsEveryCodeOnce /\ AcceptedLengthInRange /\ CountDoesNotOverflow

\* The object with key "ack" set to the string s.
WithAck(map, s) == [k \in DOMAIN map \cup {"ack"} |-> IF k = "ack" THEN s ELSE map[k]]

\* What the step just taken appended to connection c.
Appended(c) == SubSeq(outbox'[c], Len(outbox[c]) + 1, Len(outbox'[c]))

\* C28: make_message with an ack and an object gives the object with "ack" set
\* to the ack string; with no ack, or with a value that is not an object, it
\* gives the value as it is; a frame a Room fan-out queues has no "ack".
C28_AckOnlyOnObjectsWithAck ==
    [][/\ eval'.fn = "make_message" =>
            eval'.result.text =
                IF eval'.ack.some /\ eval'.value.object
                THEN [object |-> TRUE, v |-> WithAck(eval'.value.v, eval'.ack.s)]
                ELSE eval'.value
       /\ reply'.op \in {"send", "send_except"} =>
            \A c \in DOMAIN outbox : \A i \in DOMAIN Appended(c) :
                "ack" \notin DOMAIN Appended(c)[i]]_vars

\* make_message replaced the "ack" of an object by the empty ack it was given,
\* after a fan-out queued a frame.
C28_Witness ==
    /\ eval.fn = "make_message"
    /\ eval.ack = Some("") /\ eval.value.object /\ "ack" \in DOMAIN eval.value.v
    /\ eval.result.text.v.ack = ""
    /\ \E c \in DOMAIN outbox : \E i \in DOMAIN outbox[c] : outbox[c][i].type = "AddResult"

\* The status the error taxonomy gives each kind.
StatusOfKind ==
    [RoomNotFound |-> 404, OutOfRoomCodes |-> 503, UsernameTaken |-> 409,
     InvalidAuthorizationHeader |-> 400, InvalidToken |-> 401, Unknown |-> 500]

\* A MuuzikaError that reached handle_rejection is answered with the status of
\* its kind.
KindsHaveTheirStatus ==
    (eval.fn = "handle_rejection" /\ eval.err.custom /\ eval.err.is \in DOMAIN StatusOfKind) =>
        eval.response.code = StatusOfKind[eval.err.is]

\* An error create_room or join_room returned is answered with the status of
\* its kind.
LobbyErrorsAreSurfaced ==
    (reply.op \in {"create_room", "join_room"} /\ reply.res # "Ok") =>
        /\ reply.res \in DOMAIN StatusOfKind
        /\ HttpResponse(reply).code = StatusOfKind[reply.res]
        /\ HttpResponse(reply).error = reply.res

\* C29: RoomNotFound is answered 404, OutOfRoomCodes 503, UsernameTaken 409,
\* InvalidAuthorizationHeader 400, InvalidToken 401 and Unknown 500, and every
\* error of create_room or join_room is answered with the status of its kind.
C29_ErrorsHaveTheStatusOfTheirKind == KindsHaveTheirStatus /\ LobbyErrorsAreSurfaced

\* C30: decode_token with the secret encode_token was given succeeds and
\* returns the iat, room code and username that were encoded.
C30_TokenRoundTrip ==
    (eval.fn = "encode_token" /\ eval.pc = "decoded" /\ eval.with = eval.secret) =>
        eval.decoded.ok /\ eval.decoded.claims = eval.input

\* A token made with the empty secret, for an empty username, decoded with
\* the empty secret.
C30_Witness ==
    /\ eval.fn = "encode_token" /\ eval.pc = "decoded"
    /\ eval.secret = "" /\ eval.with = "" /\ eval.input.username = ""
    /\ eval.input.iat = MaxTicks
    /\ eval.decoded.ok

\* The step removes player u from Room r.
Removes(r, u) == HasPlayer(room[r], u) /\ ~HasPlayer(room'[r], u)

\* The timer armed last for the player has elapsed, and its sender was neither
\* taken by connect_player nor replaced by a later schedule_player_cleanup.
LatestTimerElapsed(rm, u) == rm.players[u].cancel_cleanup = "Stale"

\* The step removes a player only if the timer armed last for it has elapsed.
RemovedByLatestTimerOnly ==
    \A r \in DOMAIN room, u \in Users : Removes(r, u) => LatestTimerElapsed(room[r], u)

\* In the step, connect_player with the token of a seat that is still there
\* succeeds.
SeatTokenConnects ==
    \A t \in Running :
        (/\ ConnectLocks(t)
         /\ HasPlayer(room[t.r], t.u)
         /\ room[t.r].players[t.u].created_at = t.iat)
            => reply'.op = "connect_player" /\ reply'.res = "Ok"

\* C31: arming a player timer replaces the one armed before: a timer whose
\* sender was signalled, overwritten or dropped never removes the player, so a
\* player is removed only by the timer armed last for it, and until then
\* connect_player with the seat's token succeeds.
C31_OnlyLatestPlayerTimerRemoves ==
    [][RemovedByLatestTimerOnly /\ SeatTokenConnects]_vars

\* create_room and join_room calls that seated u in Room r and have not
\* returned yet, and tokens already returned for that seat.
Seating(tks, r, u) ==
    {t \in BagToSet(tks) : t.op \in {"create_room", "join_room"} /\ t.pc = "arm"
                           /\ t.r = r /\ t.u = u}
SeatSuccesses(tks, toks, rms, r, u) ==
    BagCardinality([t \in Seating(tks, r, u) |-> CopiesIn(t, tks)])
        + Cardinality({tok \in toks : /\ tok.payload.v.room_code = rms[r].code
                                      /\ tok.payload.v.username = u})

\* C32: of the create_room and join_room calls for one username in one Room,
\* concurrent or not, at most one succeeds (while the seat is not reaped); a
\* join that finds the username seated returns UsernameTaken; every Player is
\* stored under its own username, and no step changes the created_at of a
\* seated Player.
C32_OneSeatPerUsername ==
    [][/\ \A r \in DOMAIN room', u \in Users :
            SeatSuccesses(tasks', tokens', room', r, u) <= 1
       /\ \A t \in Running :
            (JoinLocks(t) /\ HasPlayer(room[t.r], t.u))
                => reply'.op = "join_room" /\ reply'.res = "UsernameTaken"
       /\ \A r \in DOMAIN room' : \A u \in DOMAIN room'[r].players :
            /\ room'[r].players[u].username = u
            /\ (r \in DOMAIN room /\ HasPlayer(room[r], u))
                  => room'[r].players[u].created_at = room[r].players[u].created_at]_vars

\* Two join_room calls for bob overlapped: the one that came second was
\* answered UsernameTaken while the first had not yet returned, a clock tick
\* after bob was seated.
C32_Witness ==
    /\ reply.op = "join_room" /\ reply.res = "UsernameTaken" /\ reply.u = "bob"
    /\ room[reply.r].leader = "alice"
    /\ Seating(tasks, reply.r, "bob") # {}
    /\ room[reply.r].players["bob"].created_at < now

\* The step appends PlayerDisconnected(u) to some queue.
EmitsPlayerDisconnected(u) ==
    \E c \in DOMAIN outbox :
        /\ Len(outbox'[c]) > Len(outbox[c])
        /\ outbox'[c][Len(outbox'[c])] = Msg("PlayerDisconnected", u)

\* After the step the session of connection c is on its way to
\* schedule_player_cleanup.
GoesOnToArm(c) ==
    \E t \in BagToSet(tasks') : t.op = "session" /\ t.pc = "arm" /\ t.c = c

\* C33: a disconnect_player step fans out PlayerDisconnected(u) or goes on to
\* arm u's timer only if u's connection was the closing handle right before
\* the step; one that finds the connection already cleared does neither.
C33_DisconnectActsOnlyOnItsOwnConnection ==
    [][reply'.op = "disconnect_player" =>
          ((EmitsPlayerDisconnected(reply'.u) \/ GoesOnToArm(reply'.c))
              => /\ HasPlayer(room[reply'.r], reply'.u)
                 /\ room[reply'.r].players[reply'.u].ws = reply'.c)]_vars

\* The Room is the registry's entry for its code.
Registered(rgs, rms, r) == rms[r].code \in DOMAIN rgs /\ rgs[rms[r].code] = r

\* The seat a token was issued for is still there: some Room with the token's
\* code holds the token's username with the token's iat as created_at.
SeatOf(rms, code, u, iat) ==
    {r \in DOMAIN rms : /\ rms[r].code = code
                        /\ HasPlayer(rms[r], u)
                        /\ rms[r].players[u].created_at = iat}

\* C34: when join_room returns Ok, the new Player is in a Room that the
\* registry holds under the returned code, however the join interleaves with
\* the Room's cleanup timer; and connect_player with the token of a seat that
\* is still there is not answered RoomNotFound.
C34_JoinedRoomIsRegistered ==
    [][/\ (reply'.op = "join_room" /\ reply'.res = "Ok") =>
            /\ HasPlayer(room'[reply'.r], reply'.u)
            /\ room'[reply'.r].code = reply'.code
            /\ Registered(rooms', room', reply'.r)
       /\ (reply'.op = "connect_player" /\ reply'.res = "RoomNotFound") =>
            SeatOf(room, reply'.code, reply'.u, reply'.iat) = {}]_vars

====
